---- MODULE Spec2Model ----
(***************************************************************************)
(* MarketLens agent backend: the ReAct turn loop (agent_service.py), the   *)
(* tool dispatcher with its three cache layers (agent_tools.py) and the    *)
(* conversation store (llm_client.py), as one state machine.               *)
(*                                                                         *)
(* Python values: a dict payload is [kind |-> "dict", d |-> record], a     *)
(* list payload is [kind |-> "list", items |-> sequence], None is the      *)
(* record None.  A tool result (always a dict in the code) is a plain      *)
(* record whose fields are the dict's keys.  List elements (bars,          *)
(* articles, posts ...) are item numbers.                                  *)
(***************************************************************************)
EXTENDS Integers, Sequences, FiniteSets, TLC

VARIABLES
    server_cache,       \* ToolCache._cache : key -> [data, ts]
    frontend_context,   \* ToolExecutor._frontend_context (Layer 1 snapshot)
    context_ticker,     \* ToolExecutor._context_ticker
    now,                \* wall clock, seconds (time.time / datetime.now)
    lastExec,           \* observation: the last ToolExecutor.execute call
    lastGet,            \* observation: the last direct ToolCache.get call
    conversations,      \* ConversationManager.conversations
    turn,               \* per turn: locals of process_message
    events,             \* per turn: the events yielded so far
    started,            \* process_message calls so far
    lastHistory,        \* observation: the last direct get_history call
    lastAdd,            \* observation: the last direct call on the session store
    vector_store,       \* VectorStore: the documents of the knowledge base
    ingest              \* scrape_and_embed_articles: the calls and their workers

agentVars == <<server_cache, frontend_context, context_ticker, now, lastExec,
               lastGet, conversations, turn, events, started>>

ingestVars == <<vector_store, ingest>>

vars == <<agentVars, lastHistory, ingestVars, lastAdd>>

---------------------------------------------------------------------------
(* Bounds of the model *)

MaxTime == 300          \* the clock of the tool-level specifications stops here
MaxExecs == 2           \* execute calls observed in the tool-level specification
MaxCacheOps == 4        \* get/set calls observed in the cache specification
NumTurns == 2           \* requests the server handles at the same time
MaxRequests == 2        \* process_message calls in one behaviour
MaxDays == 1            \* the clock of the turn-level specifications stops here
MaxMessages == 12       \* messages of a session in the get_history specification
MaxLastN == 5           \* last_n values asked of get_history
MaxArticles == 2        \* articles in one batch of the ingestion specification
MaxIngests == 2         \* scrape_and_embed_articles calls in one behaviour
MaxBatch == 21          \* articles of the long batch of the worker-pool specification
MaxStored == 2          \* messages of a session when add_message is called directly

---------------------------------------------------------------------------
(* Python values *)

None == [kind |-> "None"]
NoneStr == "<None>"     \* None where the code holds a string or a number

Dict(d) == [kind |-> "dict", d |-> d]
List(s) == [kind |-> "list", items |-> s]

\* bool(v) for a payload: None, {} and [] are falsy
Truthy(v) ==
    CASE v.kind = "None" -> FALSE
      [] v.kind = "dict" -> DOMAIN v.d # {}
      [] v.kind = "list" -> v.items # <<>>

\* d.get(k, default) on a dict payload's record
Get(d, k, default) == IF k \in DOMAIN d THEN d[k] ELSE default

\* s[:n]
Take(s, n) == IF Len(s) <= n THEN s ELSE SubSeq(s, 1, n)

Min(a, b) == IF a <= b THEN a ELSE b

\* str.upper() on the ticker strings of the model
Upper(s) ==
    CASE s = "aapl" -> "AAPL"
      [] s = "msft" -> "MSFT"
      [] OTHER -> s

---------------------------------------------------------------------------
(* ToolCache: the server-side TTL cache (Layer 2) *)

ttl_seconds == 300

\* ToolCache.get with the expiry test off by one (<= instead of <)
ToolCache_get_inclusive(key) ==
    IF key \in DOMAIN server_cache /\ now - server_cache[key].ts <= ttl_seconds
    THEN server_cache[key].data
    ELSE None

\* ToolCache.get: the entry's data while it is younger than the TTL
ToolCache_get(key) ==
    IF key \in DOMAIN server_cache /\ now - server_cache[key].ts < ttl_seconds
    THEN server_cache[key].data
    ELSE None

\* ToolCache.set applied to a cache value c
ToolCache_set(c, key, data) ==
    [k \in DOMAIN c \cup {key} |->
        IF k = key THEN [data |-> data, ts |-> now] ELSE c[k]]

---------------------------------------------------------------------------
(* ToolExecutor: Layer 1 lookup, Layer 2 keys, and what a handler call did *)

\* the snapshot as the caller sends it, flattened: overview.previousClose and
\* overview.details, then the top-level keys; an absent key holds None
ContextKeys ==
    {"previousClose", "details", "financials", "news", "dividends", "splits",
     "sentiment"}

EmptyContext == [k \in ContextKeys |-> None]

\* set_context: the fields it assigns
set_context(fc, ticker) ==
    [frontend_context |-> fc,
     context_ticker |-> IF ticker # "" THEN Upper(ticker) ELSE NoneStr]

mapping ==
    [get_stock_quote |-> "previousClose",
     get_company_info |-> "details",
     get_financials |-> "financials",
     get_news |-> "news",
     get_dividends |-> "dividends",
     get_stock_splits |-> "splits",
     analyze_sentiment |-> "sentiment"]

\* _check_frontend_context without the ticker test of lines 256-257
_check_frontend_context_any_ticker(tool_name, ticker) ==
    IF tool_name \notin DOMAIN mapping THEN None
    ELSE LET data == frontend_context[mapping[tool_name]]
         IN  IF Truthy(data) THEN data ELSE None

_check_frontend_context(tool_name, ticker) ==
    IF Upper(ticker) # context_ticker THEN None
    ELSE IF tool_name \notin DOMAIN mapping THEN None
    ELSE LET data == frontend_context[mapping[tool_name]]
         IN  IF Truthy(data) THEN data ELSE None

CacheKey(tool_name, ticker) == tool_name \o ":" \o ticker

_check_server_cache(tool_name, ticker) == ToolCache_get(CacheKey(tool_name, ticker))

\* what one handler call did: its return value or the exception it raised,
\* the Layer-1 lookups, the Layer-2 keys read, the Layer-2 entries written
\* and the collaborator calls made
Ret(result, l1, gets, sets, live) ==
    [result |-> result, raised |-> "", l1 |-> l1, gets |-> gets, sets |-> sets,
     live |-> live]

Exc(exception, l1, gets, sets, live) ==
    [result |-> None, raised |-> exception, l1 |-> l1, gets |-> gets,
     sets |-> sets, live |-> live]

\* handler(**args): the parameters a handler requires and accepts
Required ==
    [get_stock_quote |-> {"ticker"},
     get_company_info |-> {"ticker"},
     get_financials |-> {"ticker"},
     get_news |-> {"ticker"},
     search_knowledge_base |-> {"query", "ticker"},
     analyze_sentiment |-> {"ticker"},
     get_price_forecast |-> {"ticker"},
     get_dividends |-> {"ticker"},
     get_stock_splits |-> {"ticker"},
     get_price_history |-> {"ticker", "from_date", "to_date"}]

Optional ==
    [get_stock_quote |-> {},
     get_company_info |-> {},
     get_financials |-> {},
     get_news |-> {"limit"},
     search_knowledge_base |-> {},
     analyze_sentiment |-> {},
     get_price_forecast |-> {},
     get_dividends |-> {"limit"},
     get_stock_splits |-> {},
     get_price_history |-> {"timespan"}]

_handlers == DOMAIN Required

Binds(tool_name, args) ==
    /\ Required[tool_name] \subseteq DOMAIN args
    /\ DOMAIN args \subseteq Required[tool_name] \cup Optional[tool_name]

---------------------------------------------------------------------------
(* Tool handlers.  `live` is what the collaborator answers if it is called: *)
(* LiveRaise (the call raises) or a payload.                                *)

LiveRaise == [kind |-> "raise"]

Call(fn, a) == [fn |-> fn, args |-> a]

\* one Layer-2 write
Put(tool_name, ticker, result) == [key |-> CacheKey(tool_name, ticker), data |-> result]

\* a formatter's outcome: a result, or the exception it raised
Fmt(result) == [result |-> result, raised |-> ""]
FmtExc(exception) == [result |-> None, raised |-> exception]

_format_financials(ticker, data) ==
    IF data.kind # "dict" THEN FmtExc("AttributeError")
    ELSE LET results == Get(data.d, "results", <<>>)
         IN  IF results = <<>>
             THEN Fmt([error |-> "No financial data available"])
             ELSE Fmt([ticker |-> ticker, periods |-> Take(results, 4)])

_format_news(ticker, data) ==
    IF data.kind # "dict" THEN FmtExc("AttributeError")
    ELSE LET articles == Get(data.d, "results", <<>>)
         IN  IF articles = <<>>
             THEN Fmt([error |-> "No news articles available"])
             ELSE Fmt([ticker |-> ticker, articles |-> Take(articles, 10)])

\* _format_dividends reporting an empty record list as an error
_format_dividends_error(ticker, data) ==
    IF data.kind # "dict" THEN FmtExc("AttributeError")
    ELSE LET results == Get(data.d, "results", <<>>)
         IN  IF results = <<>>
             THEN Fmt([error |-> "No dividend data available for this ticker."])
             ELSE Fmt([ticker |-> ticker, dividends |-> Take(results, 10)])

_format_dividends(ticker, data) ==
    IF data.kind # "dict" THEN FmtExc("AttributeError")
    ELSE LET results == Get(data.d, "results", <<>>)
         IN  IF results = <<>>
             THEN Fmt([message |-> "No dividend data available for this ticker."])
             ELSE Fmt([ticker |-> ticker, dividends |-> Take(results, 10)])

_format_splits(ticker, data) ==
    IF data.kind # "dict" THEN FmtExc("AttributeError")
    ELSE LET results == Get(data.d, "results", <<>>)
         IN  IF results = <<>>
             THEN Fmt([message |-> "No stock split history found for this ticker."])
             ELSE Fmt([ticker |-> ticker, splits |-> Take(results, 10)])

_get_stock_quote(args, live) ==
    IF args.ticker = NoneStr THEN Exc("AttributeError", <<>>, <<>>, <<>>, <<>>) ELSE
    LET ticker == Upper(args.ticker)
        tool == "get_stock_quote"
        fe_data == _check_frontend_context(tool, ticker)
        fe_results == IF fe_data.kind = "dict" THEN Get(fe_data.d, "results", <<>>) ELSE <<>>
        cached == _check_server_cache(tool, ticker)
        key == CacheKey(tool, ticker)
        call == Call("polygon.get_previous_close", <<ticker>>)
        results == IF live.kind = "dict" THEN Get(live.d, "results", <<>>) ELSE <<>>
        result == [ticker |-> ticker, close |-> results[1]]
    IN  IF fe_data.kind = "list" THEN Exc("AttributeError", <<tool>>, <<>>, <<>>, <<>>)
        ELSE IF Truthy(fe_data) /\ fe_results # <<>>
        THEN Ret([ticker |-> ticker, close |-> fe_results[1], source |-> "cached"],
                 <<tool>>, <<>>, <<>>, <<>>)
        ELSE IF cached # None THEN Ret(cached, <<tool>>, <<key>>, <<>>, <<>>)
        ELSE IF live.kind = "raise" THEN Exc("CollaboratorError", <<tool>>, <<key>>, <<>>, <<call>>)
        ELSE IF live.kind # "dict" THEN Exc("AttributeError", <<tool>>, <<key>>, <<>>, <<call>>)
        ELSE IF results = <<>>
        THEN Ret([error |-> "No quote data available"], <<tool>>, <<key>>, <<>>, <<call>>)
        ELSE Ret(result, <<tool>>, <<key>>, <<Put(tool, ticker, result)>>, <<call>>)

_get_company_info(args, live) ==
    IF args.ticker = NoneStr THEN Exc("AttributeError", <<>>, <<>>, <<>>, <<>>) ELSE
    LET ticker == Upper(args.ticker)
        tool == "get_company_info"
        fe_data == _check_frontend_context(tool, ticker)
        fe_r == Get(fe_data.d, "results", fe_data.d)
        cached == _check_server_cache(tool, ticker)
        key == CacheKey(tool, ticker)
        call == Call("polygon.get_ticker_details", <<ticker>>)
        has_r == live.kind = "dict" /\ "results" \in DOMAIN live.d
        result == [ticker |-> ticker, name |-> Get(live.d.results, "name", NoneStr)]
    IN  IF fe_data.kind = "list" THEN Exc("AttributeError", <<tool>>, <<>>, <<>>, <<>>)
        ELSE IF Truthy(fe_data)
        THEN Ret([ticker |-> ticker, name |-> Get(fe_r, "name", NoneStr),
                  source |-> "cached"],
                 <<tool>>, <<>>, <<>>, <<>>)
        ELSE IF cached # None THEN Ret(cached, <<tool>>, <<key>>, <<>>, <<>>)
        ELSE IF live.kind = "raise" THEN Exc("CollaboratorError", <<tool>>, <<key>>, <<>>, <<call>>)
        ELSE IF live.kind # "dict" THEN Exc("AttributeError", <<tool>>, <<key>>, <<>>, <<call>>)
        ELSE IF ~has_r
        THEN Ret([error |-> "No company data available"], <<tool>>, <<key>>, <<>>, <<call>>)
        ELSE Ret(result, <<tool>>, <<key>>, <<Put(tool, ticker, result)>>, <<call>>)

\* the formatter-based handlers share one shape: Layer 1 through the
\* formatter, Layer 2, then the live call through the formatter and a
\* Layer-2 write of whatever the formatter returned
Formatted(tool, ticker, fe_fmt, live_fmt, live, call) ==
    LET fe_data == _check_frontend_context(tool, ticker)
        cached == _check_server_cache(tool, ticker)
        key == CacheKey(tool, ticker)
    IN  IF Truthy(fe_data)
        THEN IF fe_fmt.raised # ""
             THEN Exc(fe_fmt.raised, <<tool>>, <<>>, <<>>, <<>>)
             ELSE Ret(fe_fmt.result, <<tool>>, <<>>, <<>>, <<>>)
        ELSE IF cached # None THEN Ret(cached, <<tool>>, <<key>>, <<>>, <<>>)
        ELSE IF live.kind = "raise" THEN Exc("CollaboratorError", <<tool>>, <<key>>, <<>>, <<call>>)
        ELSE IF live_fmt.raised # ""
        THEN Exc(live_fmt.raised, <<tool>>, <<key>>, <<>>, <<call>>)
        ELSE Ret(live_fmt.result, <<tool>>, <<key>>,
                 <<Put(tool, ticker, live_fmt.result)>>, <<call>>)

_get_financials(args, live) ==
    IF args.ticker = NoneStr THEN Exc("AttributeError", <<>>, <<>>, <<>>, <<>>) ELSE
    LET ticker == Upper(args.ticker)
        tool == "get_financials"
    IN  Formatted(tool, ticker,
                  _format_financials(ticker, _check_frontend_context(tool, ticker)),
                  _format_financials(ticker, live), live,
                  Call("polygon.get_financials", <<ticker>>))

\* the provider's `limit` parameter: at most `limit` records come back
Limited(live, limit) ==
    IF live.kind = "dict" /\ "results" \in DOMAIN live.d
    THEN Dict([live.d EXCEPT !.results = Take(@, limit)])
    ELSE live

_get_news(args, live) ==
    IF args.ticker = NoneStr THEN Exc("AttributeError", <<>>, <<>>, <<>>, <<>>) ELSE
    LET ticker == Upper(args.ticker)
        tool == "get_news"
        arg == Get(args, "limit", 10)
        limit == Min(IF arg = 0 THEN 10 ELSE arg, 20)
        data == Limited(live, limit)
    IN  Formatted(tool, ticker,
                  _format_news(ticker, _check_frontend_context(tool, ticker)),
                  _format_news(ticker, data), live,
                  Call("polygon.get_ticker_news", <<ticker, limit>>))

\* _get_dividends storing in Layer 2 what it resolved from Layer 1
_get_dividends_store_l1(args, live) ==
    IF args.ticker = NoneStr THEN Exc("AttributeError", <<>>, <<>>, <<>>, <<>>) ELSE
    LET ticker == Upper(args.ticker)
        tool == "get_dividends"
        arg == Get(args, "limit", 10)
        limit == IF arg = 0 THEN 10 ELSE arg
        data == Limited(live, limit)
        out == Formatted(tool, ticker,
                         _format_dividends(ticker, _check_frontend_context(tool, ticker)),
                         _format_dividends(ticker, data), live,
                         Call("polygon.get_dividends", <<ticker, limit>>))
    IN  IF out.gets = <<>> /\ out.raised = ""
        THEN [out EXCEPT !.sets = <<Put(tool, ticker, out.result)>>]
        ELSE out

_get_dividends(args, live) ==
    IF args.ticker = NoneStr THEN Exc("AttributeError", <<>>, <<>>, <<>>, <<>>) ELSE
    LET ticker == Upper(args.ticker)
        tool == "get_dividends"
        arg == Get(args, "limit", 10)
        limit == IF arg = 0 THEN 10 ELSE arg
        data == Limited(live, limit)
    IN  Formatted(tool, ticker,
                  _format_dividends(ticker, _check_frontend_context(tool, ticker)),
                  _format_dividends(ticker, data), live,
                  Call("polygon.get_dividends", <<ticker, limit>>))

_get_stock_splits(args, live) ==
    IF args.ticker = NoneStr THEN Exc("AttributeError", <<>>, <<>>, <<>>, <<>>) ELSE
    LET ticker == Upper(args.ticker)
        tool == "get_stock_splits"
    IN  Formatted(tool, ticker,
                  _format_splits(ticker, _check_frontend_context(tool, ticker)),
                  _format_splits(ticker, live), live,
                  Call("polygon.get_splits", <<ticker>>))

\* _search_knowledge_base going through Layer 2 like the other handlers
_search_knowledge_base_cached(args, live) ==
    IF args.ticker = NoneStr THEN Exc("AttributeError", <<>>, <<>>, <<>>, <<>>) ELSE
    LET ticker == Upper(args.ticker)
        tool == "search_knowledge_base"
        cached == _check_server_cache(tool, ticker)
        key == CacheKey(tool, ticker)
        call == Call("context_retriever.retrieve_context", <<args.query, ticker>>)
        result == [ticker |-> ticker, results |-> Take(live.items, 5)]
    IN  IF cached # None THEN Ret(cached, <<>>, <<key>>, <<>>, <<>>)
        ELSE IF live.kind = "raise" THEN Exc("CollaboratorError", <<>>, <<key>>, <<>>, <<call>>)
        ELSE IF ~Truthy(live)
        THEN Ret([message |-> "No relevant articles found in knowledge base. Try using get_news for recent headlines."],
                 <<>>, <<key>>, <<>>, <<call>>)
        ELSE IF live.kind # "list" THEN Exc("TypeError", <<>>, <<key>>, <<>>, <<call>>)
        ELSE Ret(result, <<>>, <<key>>, <<Put(tool, ticker, result)>>, <<call>>)

_search_knowledge_base(args, live) ==
    IF args.ticker = NoneStr THEN Exc("AttributeError", <<>>, <<>>, <<>>, <<>>) ELSE
    LET ticker == Upper(args.ticker)
        call == Call("context_retriever.retrieve_context", <<args.query, ticker>>)
    IN  IF live.kind = "raise" THEN Exc("CollaboratorError", <<>>, <<>>, <<>>, <<call>>)
        ELSE IF ~Truthy(live)
        THEN Ret([message |-> "No relevant articles found in knowledge base. Try using get_news for recent headlines."],
                 <<>>, <<>>, <<>>, <<call>>)
        ELSE IF live.kind # "list" THEN Exc("TypeError", <<>>, <<>>, <<>>, <<call>>)
        ELSE Ret([ticker |-> ticker, results |-> Take(live.items, 5)],
                 <<>>, <<>>, <<>>, <<call>>)

\* the fields both branches of _analyze_sentiment build; `aggregate` and
\* `posts` are the dict's entries (None, [] when the key is absent)
Sentiment(ticker, aggregate, posts) ==
    [ticker |-> ticker,
     overall_sentiment |-> IF aggregate = None THEN NoneStr
                           ELSE Get(aggregate, "label", NoneStr),
     top_posts |-> Take(posts, 5)]

_analyze_sentiment(args, live) ==
    IF args.ticker = NoneStr THEN Exc("AttributeError", <<>>, <<>>, <<>>, <<>>) ELSE
    LET ticker == Upper(args.ticker)
        tool == "analyze_sentiment"
        fe_data == _check_frontend_context(tool, ticker)
        cached == _check_server_cache(tool, ticker)
        key == CacheKey(tool, ticker)
        call == Call("sentiment_service.analyze_ticker", <<ticker>>)
        fe_s == Sentiment(ticker, Get(fe_data.d, "aggregate", fe_data.d),
                          Get(fe_data.d, "posts", <<>>))
        fe_result == [ticker |-> fe_s.ticker,
                      overall_sentiment |-> fe_s.overall_sentiment,
                      top_posts |-> fe_s.top_posts, source |-> "cached"]
        result == Sentiment(ticker, Get(live.d, "aggregate", None),
                            Get(live.d, "posts", <<>>))
    IN  IF fe_data.kind = "list" THEN Exc("AttributeError", <<tool>>, <<>>, <<>>, <<>>)
        ELSE IF Truthy(fe_data) THEN Ret(fe_result, <<tool>>, <<>>, <<>>, <<>>)
        ELSE IF cached # None THEN Ret(cached, <<tool>>, <<key>>, <<>>, <<>>)
        ELSE IF live.kind = "raise" THEN Exc("CollaboratorError", <<tool>>, <<key>>, <<>>, <<call>>)
        ELSE IF live.kind # "dict" THEN Exc("AttributeError", <<tool>>, <<key>>, <<>>, <<call>>)
        ELSE Ret(result, <<tool>>, <<key>>, <<Put(tool, ticker, result)>>, <<call>>)

\* _get_price_forecast without the Layer-2 write of the fresh result
_get_price_forecast_no_store(args, live) ==
    IF args.ticker = NoneStr THEN Exc("AttributeError", <<>>, <<>>, <<>>, <<>>) ELSE
    LET ticker == Upper(args.ticker)
        tool == "get_price_forecast"
        cached == _check_server_cache(tool, ticker)
        key == CacheKey(tool, ticker)
        call == Call("forecast_service.get_forecast", <<ticker>>)
        result == [ticker |-> ticker,
                   predictions |-> Take(Get(live.d, "forecast", <<>>), 10)]
    IN  IF cached # None THEN Ret(cached, <<>>, <<key>>, <<>>, <<>>)
        ELSE IF live.kind = "raise" THEN Exc("CollaboratorError", <<>>, <<key>>, <<>>, <<call>>)
        ELSE IF live.kind # "dict" THEN Exc("AttributeError", <<>>, <<key>>, <<>>, <<call>>)
        ELSE IF "error" \in DOMAIN live.d
        THEN Ret([error |-> live.d.error], <<>>, <<key>>, <<>>, <<call>>)
        ELSE Ret(result, <<>>, <<key>>, <<>>, <<call>>)

_get_price_forecast(args, live) ==
    IF args.ticker = NoneStr THEN Exc("AttributeError", <<>>, <<>>, <<>>, <<>>) ELSE
    LET ticker == Upper(args.ticker)
        tool == "get_price_forecast"
        cached == _check_server_cache(tool, ticker)
        key == CacheKey(tool, ticker)
        call == Call("forecast_service.get_forecast", <<ticker>>)
        result == [ticker |-> ticker,
                   predictions |-> Take(Get(live.d, "forecast", <<>>), 10)]
    IN  IF cached # None THEN Ret(cached, <<>>, <<key>>, <<>>, <<>>)
        ELSE IF live.kind = "raise" THEN Exc("CollaboratorError", <<>>, <<key>>, <<>>, <<call>>)
        ELSE IF live.kind # "dict" THEN Exc("AttributeError", <<>>, <<key>>, <<>>, <<call>>)
        ELSE IF "error" \in DOMAIN live.d
        THEN Ret([error |-> live.d.error], <<>>, <<key>>, <<>>, <<call>>)
        ELSE Ret(result, <<>>, <<key>>, <<Put(tool, ticker, result)>>, <<call>>)

\* _get_price_history with a Layer-2 key that leaves out the granularity
_get_price_history_no_timespan(args, live) ==
    IF args.ticker = NoneStr THEN Exc("AttributeError", <<>>, <<>>, <<>>, <<>>) ELSE
    LET ticker == Upper(args.ticker)
        arg == Get(args, "timespan", "")
        timespan == IF arg = "" THEN "day" ELSE arg
        cache_key == "get_price_history:" \o ticker \o ":" \o args.from_date \o ":"
                       \o args.to_date
        cached == ToolCache_get(cache_key)
        call == Call("polygon.get_aggregates",
                     <<ticker, timespan, args.from_date, args.to_date>>)
        results == Get(live.d, "results", <<>>)
        result == [ticker |-> ticker, timespan |-> timespan, from |-> args.from_date,
                   to |-> args.to_date, bars |-> results, count |-> Len(results)]
    IN  IF cached # None THEN Ret(cached, <<>>, <<cache_key>>, <<>>, <<>>)
        ELSE IF live.kind = "raise" THEN Exc("CollaboratorError", <<>>, <<cache_key>>, <<>>, <<call>>)
        ELSE IF live.kind # "dict" THEN Exc("AttributeError", <<>>, <<cache_key>>, <<>>, <<call>>)
        ELSE IF results = <<>>
        THEN Ret([error |-> "No price history available for the given date range"],
                 <<>>, <<cache_key>>, <<>>, <<call>>)
        ELSE Ret(result, <<>>, <<cache_key>>,
                 <<[key |-> cache_key, data |-> result]>>, <<call>>)

_get_price_history(args, live) ==
    IF args.ticker = NoneStr THEN Exc("AttributeError", <<>>, <<>>, <<>>, <<>>) ELSE
    LET ticker == Upper(args.ticker)
        arg == Get(args, "timespan", "")
        timespan == IF arg = "" THEN "day" ELSE arg
        cache_key == "get_price_history:" \o ticker \o ":" \o args.from_date \o ":"
                       \o args.to_date \o ":" \o timespan
        cached == ToolCache_get(cache_key)
        call == Call("polygon.get_aggregates",
                     <<ticker, timespan, args.from_date, args.to_date>>)
        results == Get(live.d, "results", <<>>)
        result == [ticker |-> ticker, timespan |-> timespan, from |-> args.from_date,
                   to |-> args.to_date, bars |-> results, count |-> Len(results)]
    IN  IF cached # None THEN Ret(cached, <<>>, <<cache_key>>, <<>>, <<>>)
        ELSE IF live.kind = "raise" THEN Exc("CollaboratorError", <<>>, <<cache_key>>, <<>>, <<call>>)
        ELSE IF live.kind # "dict" THEN Exc("AttributeError", <<>>, <<cache_key>>, <<>>, <<call>>)
        ELSE IF results = <<>>
        THEN Ret([error |-> "No price history available for the given date range"],
                 <<>>, <<cache_key>>, <<>>, <<call>>)
        ELSE Ret(result, <<>>, <<cache_key>>,
                 <<[key |-> cache_key, data |-> result]>>, <<call>>)

\* self._handlers[tool_name](**args)
Handler(tool_name, args, live) ==
    CASE tool_name = "get_stock_quote" -> _get_stock_quote(args, live)
      [] tool_name = "get_company_info" -> _get_company_info(args, live)
      [] tool_name = "get_financials" -> _get_financials(args, live)
      [] tool_name = "get_news" -> _get_news(args, live)
      [] tool_name = "search_knowledge_base" -> _search_knowledge_base(args, live)
      [] tool_name = "analyze_sentiment" -> _analyze_sentiment(args, live)
      [] tool_name = "get_price_forecast" -> _get_price_forecast(args, live)
      [] tool_name = "get_dividends" -> _get_dividends(args, live)
      [] tool_name = "get_stock_splits" -> _get_stock_splits(args, live)
      [] tool_name = "get_price_history" -> _get_price_history(args, live)

\* execute looking the handler up with _handlers[tool_name] inside the try:
\* an unknown name becomes a caught KeyError
execute_lookup_in_try(tool_name, args, live) ==
    IF tool_name \notin _handlers
    THEN [Exc("KeyError", <<>>, <<>>, <<>>, <<>>)
          EXCEPT !.result = [error |-> "Tool execution failed: KeyError"]]
    ELSE IF ~Binds(tool_name, args)
    THEN [Exc("TypeError", <<>>, <<>>, <<>>, <<>>)
          EXCEPT !.result = [error |-> "Tool execution failed: TypeError"]]
    ELSE LET out == Handler(tool_name, args, live)
         IN  IF out.raised # ""
             THEN [out EXCEPT !.result = [error |-> "Tool execution failed: " \o out.raised]]
             ELSE out

\* ToolExecutor.execute: the value returned and what the call touched
execute(tool_name, args, live) ==
    IF tool_name \notin _handlers
    THEN Ret([error |-> "Unknown tool: " \o tool_name], <<>>, <<>>, <<>>, <<>>)
    ELSE IF ~Binds(tool_name, args)
    THEN [Exc("TypeError", <<>>, <<>>, <<>>, <<>>)
          EXCEPT !.result = [error |-> "Tool execution failed: TypeError"]]
    ELSE LET out == Handler(tool_name, args, live)
         IN  IF out.raised # ""
             THEN [out EXCEPT !.result = [error |-> "Tool execution failed: " \o out.raised]]
             ELSE out

\* the Layer-2 writes of a call, applied in order to a cache value
RECURSIVE ApplySets(_, _)
ApplySets(c, sets) ==
    IF sets = <<>> THEN c
    ELSE ApplySets(ToolCache_set(c, Head(sets).key, Head(sets).data), Tail(sets))

---------------------------------------------------------------------------
(* Inputs of the tool-level specification *)

FullContext ==
    [previousClose |-> Dict([results |-> <<7>>]),
     details |-> Dict([results |-> [name |-> "Apple Inc."]]),
     financials |-> Dict([results |-> <<1, 2>>]),
     news |-> Dict([results |-> <<1, 2>>]),
     dividends |-> Dict([results |-> <<1>>]),
     splits |-> Dict([results |-> <<1>>]),
     sentiment |-> Dict([aggregate |-> [label |-> "bullish"], posts |-> <<1>>])]

\* present and non-empty, but not of the shape the handlers expect
OddContext ==
    [previousClose |-> Dict([status |-> "OK"]),
     details |-> Dict([name |-> "Apple Inc."]),
     financials |-> Dict([status |-> "OK"]),
     news |-> List(<<1, 2>>),
     dividends |-> List(<<1>>),
     splits |-> Dict([results |-> <<>>]),
     sentiment |-> Dict([label |-> "bearish"])]

Snapshots == {EmptyContext, FullContext, OddContext}

ContextTickers == {"AAPL", ""}

UnknownTools == {"get_weather", ""}

ToolCalls ==
    {[tool |-> "get_stock_quote", args |-> [ticker |-> tk]] : tk \in {"aapl", "MSFT"}}
    \cup {[tool |-> t, args |-> [ticker |-> "aapl"]] :
        t \in {"get_financials", "get_price_forecast", "get_company_info",
               "get_news", "analyze_sentiment", "get_dividends",
               "get_stock_splits"} \cup UnknownTools}
    \cup {[tool |-> "get_news", args |-> [ticker |-> "aapl", limit |-> 1]],
          [tool |-> "get_news", args |-> [ticker |-> NoneStr]],
          [tool |-> "get_stock_quote", args |-> [bogus |-> 1]],
          [tool |-> "get_weather", args |-> [bogus |-> 1]],
          [tool |-> "search_knowledge_base", args |-> [query |-> "q", ticker |-> "aapl"]],
          [tool |-> "get_price_history",
           args |-> [ticker |-> "aapl", from_date |-> "2024-01-01",
                     to_date |-> "2024-02-01"]]}

\* what the collaborator of a tool may answer
LiveOutcomes(tool_name) ==
    CASE tool_name = "search_knowledge_base" -> {LiveRaise, List(<<>>), List(<<3, 4>>)}
      [] tool_name = "analyze_sentiment" ->
            {LiveRaise, Dict([aggregate |-> [label |-> "bullish"], posts |-> <<1, 2>>])}
      [] tool_name = "get_price_forecast" ->
            {LiveRaise, Dict([error |-> "Insufficient data"]), Dict([forecast |-> <<5, 6>>])}
      [] tool_name = "get_company_info" ->
            {LiveRaise, Dict([status |-> "NOT_FOUND"]),
             Dict([results |-> [name |-> "Apple Inc."]])}
      [] tool_name \in UnknownTools -> {LiveRaise}
      [] OTHER -> {LiveRaise, Dict([results |-> <<>>]), Dict([results |-> <<8, 9>>])}

TickSteps == {150}

---------------------------------------------------------------------------
(* State after construction *)

Turns == 1..NumTurns

ConvIds == {"c1", "c2"}

\* the locals of one process_message call, and what it has done so far
IdleTurn ==
    [pc |-> "idle", ticker |-> "", frontend_context |-> EmptyContext,
     message |-> <<>>, cid |-> "", contents |-> <<>>,
     iteration |-> 0, calls |-> <<>>, idx |-> 0, parts |-> <<>>,
     text_parts |-> <<>>, final_text |-> <<>>, pos |-> 0, role |-> "", used |-> 0, cutoff |-> 0,
     to_delete |-> {}, requests |-> 0, tool_rounds |-> 0, writes |-> 0,
     len0 |-> 0, store0 |-> <<>>, raised |-> "", execs |-> 0, appended |-> 0,
     out |-> Ret(None, <<>>, <<>>, <<>>, <<>>)]

\* `answer` is what the collaborator answered when the call reached it
NoExec == [n |-> 0, tool |-> "", args |-> [ticker |-> ""],
           out |-> Ret(None, <<>>, <<>>, <<>>, <<>>), answer |-> None]

\* `stored` remembers, for every key, the data and the time of its last
\* ToolCache.set call
NoGet == [n |-> 0, op |-> "", key |-> "", at |-> 0, value |-> None, stored |-> <<>>]

\* no get_history call observed yet
NoHistory == [n |-> 0, conversation_id |-> "", last_n |-> 0, result |-> <<>>,
              before |-> <<>>]

\* the knowledge base at start-up
NoDocuments == [documents |-> <<>>, saves |-> 0]

\* the tallies scrape_and_embed_articles starts from (line 153)
NoResults == [scraped |-> 0, embedded |-> 0, failed |-> 0, skipped |-> 0]

\* no scrape_and_embed_articles call yet; `prev` keeps the articles of the
\* call before the current one and what process_article returned for each
\* no direct call on the session store observed yet; otherwise the call, its
\* arguments, its time, the store it found, whether it raised, and the call
\* before it
NoAdd == [n |-> 0, op |-> "", conversation_id |-> "", at |-> 0,
          message |-> [role |-> "", content |-> <<>>], before |-> <<>>,
          raised |-> FALSE, prev |-> <<"", "">>]

NoIngest ==
    [n |-> 0, pc |-> "idle", ticker |-> "", articles |-> <<>>, tasks |-> <<>>,
     collected |-> {}, results |-> NoResults, saves |-> 0, returned |-> None,
     prev |-> None]

Init ==
    /\ server_cache = <<>>
    /\ frontend_context = EmptyContext
    /\ context_ticker = NoneStr
    /\ now = 0
    /\ lastExec = NoExec
    /\ lastGet = NoGet
    /\ conversations = <<>>
    /\ turn = [t \in Turns |-> IdleTurn]
    /\ events = [t \in Turns |-> <<>>]
    /\ started = 0
    /\ lastHistory = NoHistory
    /\ vector_store = NoDocuments
    /\ ingest = NoIngest
    /\ lastAdd = NoAdd

---------------------------------------------------------------------------
(* Tool-level actions *)

\* time.time() / datetime.now() move on
Tick(d, limit) ==
    /\ now + d <= limit
    /\ now' = now + d
    /\ UNCHANGED <<server_cache, frontend_context, context_ticker, lastExec,
                   lastGet, conversations, turn, events, started>>
    /\ UNCHANGED <<lastHistory, ingestVars, lastAdd>>

\* ToolExecutor.set_context, as process_message calls it
SetContext(fc, ticker) ==
    /\ frontend_context' = set_context(fc, ticker).frontend_context
    /\ context_ticker' = set_context(fc, ticker).context_ticker
    /\ UNCHANGED <<server_cache, now, lastExec, lastGet, conversations, turn, events, started>>
    /\ UNCHANGED <<lastHistory, ingestVars, lastAdd>>

\* ToolExecutor.execute called directly
Execute(tool_name, args, live) ==
    /\ lastExec.n < MaxExecs
    /\ LET out == execute(tool_name, args, live)
       IN  /\ server_cache' = ApplySets(server_cache, out.sets)
           /\ lastExec' = [n |-> lastExec.n + 1, tool |-> tool_name,
                           args |-> args, out |-> out,
                           answer |-> IF out.live # <<>> THEN live ELSE None]
    /\ UNCHANGED <<frontend_context, context_ticker, now, lastGet, conversations,
                   turn, events, started>>
    /\ UNCHANGED <<lastHistory, ingestVars, lastAdd>>

NextTools ==
    \/ \E d \in TickSteps : Tick(d, MaxTime)
    \/ \E fc \in Snapshots, tk \in ContextTickers : SetContext(fc, tk)
    \/ \E c \in ToolCalls : \E live \in LiveOutcomes(c.tool) :
          Execute(c.tool, c.args, live)

SpecTools == Init /\ [][NextTools]_vars

TypeOKTools == lastExec.n \in 0..MaxExecs

---------------------------------------------------------------------------
(* Properties of the dispatcher *)

\* the step is an execute call
ExecStep == lastExec'.n = lastExec.n + 1

TenTools ==
    {"get_stock_quote", "get_company_info", "get_financials", "get_news",
     "search_knowledge_base", "analyze_sentiment", "get_price_forecast",
     "get_dividends", "get_stock_splits", "get_price_history"}

Layer1Tools ==
    {"get_stock_quote", "get_company_info", "get_financials", "get_news",
     "get_dividends", "get_stock_splits", "analyze_sentiment"}

\* the snapshot key a Layer-1 tool reads (spec 4.2)
SnapshotKey(tool_name) ==
    CASE tool_name = "get_stock_quote" -> "previousClose"
      [] tool_name = "get_company_info" -> "details"
      [] tool_name = "get_financials" -> "financials"
      [] tool_name = "get_news" -> "news"
      [] tool_name = "get_dividends" -> "dividends"
      [] tool_name = "get_stock_splits" -> "splits"
      [] tool_name = "analyze_sentiment" -> "sentiment"

\* a well-formed call: the arguments bind and the ticker is a string
WellFormed(tool_name, args) ==
    /\ tool_name \in TenTools
    /\ Binds(tool_name, args)
    /\ args.ticker # NoneStr

\* before the call: the snapshot's ticker matches the requested one and the
\* tool's snapshot key is present and non-empty
SnapshotHas(tool_name, args) ==
    /\ tool_name \in Layer1Tools
    /\ WellFormed(tool_name, args)
    /\ context_ticker = Upper(args.ticker)
    /\ frontend_context[SnapshotKey(tool_name)] # None
    /\ Truthy(frontend_context[SnapshotKey(tool_name)])

\* C6: for every tool name outside the ten handlers and for every argument
\* map, execute returns {error: "Unknown tool: <name>"}, raises nothing, and
\* touches neither Layer 1, nor the server cache, nor a collaborator.
C6_UnknownTool ==
    (lastExec.n > 0 /\ lastExec.tool \notin TenTools) =>
        /\ lastExec.out.result = [error |-> "Unknown tool: " \o lastExec.tool]
        /\ lastExec.out.raised = ""
        /\ lastExec.out.l1 = <<>>
        /\ lastExec.out.gets = <<>>
        /\ lastExec.out.sets = <<>>
        /\ lastExec.out.live = <<>>

\* an unknown tool was called with arguments no handler would accept
C6_Witness ==
    /\ lastExec.n > 0
    /\ lastExec.tool = "get_weather"
    /\ "bogus" \in DOMAIN lastExec.args
    /\ lastExec.out.result = [error |-> "Unknown tool: get_weather"]

\* C8: for every Layer-1 tool, when the snapshot's ticker matches and the
\* mapped key is present and non-empty, the result is tagged source: cached
\* and neither the server cache nor the collaborator is consulted.
C8_Layer1Tagged ==
    [][(ExecStep /\ SnapshotHas(lastExec'.tool, lastExec'.args)) =>
          /\ "source" \in DOMAIN lastExec'.out.result
          /\ lastExec'.out.result.source = "cached"
          /\ lastExec'.out.gets = <<>>
          /\ lastExec'.out.live = <<>>]_vars

\* the Layer-2 key of a call (spec 4.2): (tool, ticker), for price history
\* extended by the date range and the granularity
KeyOf(tool_name, args) ==
    IF tool_name = "get_price_history"
    THEN "get_price_history:" \o Upper(args.ticker) \o ":" \o args.from_date \o ":"
           \o args.to_date \o ":"
           \o (IF "timespan" \in DOMAIN args THEN args.timespan ELSE "day")
    ELSE tool_name \o ":" \o Upper(args.ticker)

\* before the call: Layer 1 has data for it (for the quote, data with records)
Layer1Serves(tool_name, args) ==
    /\ SnapshotHas(tool_name, args)
    /\ tool_name = "get_stock_quote" =>
          LET p == frontend_context["previousClose"]
          IN  p.kind = "dict" /\ "results" \in DOMAIN p.d /\ p.d.results # <<>>

\* before the call: Layer 2 holds an entry for it that is younger than the ttl
Layer2Fresh(tool_name, args) ==
    /\ KeyOf(tool_name, args) \in DOMAIN server_cache
    /\ now - server_cache[KeyOf(tool_name, args)].ts < 300

---------------------------------------------------------------------------
(* ToolCache called directly *)

CacheKeys == {"get_stock_quote:AAPL", "get_news:AAPL"}

CacheData == {[ticker |-> "AAPL", close |-> 8], [ticker |-> "AAPL", close |-> 9]}

CacheTickSteps == {149, 150}

CacheSet(key, data) ==
    /\ lastGet.n < MaxCacheOps
    /\ server_cache' = ToolCache_set(server_cache, key, data)
    /\ lastGet' = [n |-> lastGet.n + 1, op |-> "set", key |-> key, at |-> now,
                   value |-> None,
                   stored |-> [k \in DOMAIN lastGet.stored \cup {key} |->
                                 IF k = key THEN [data |-> data, t0 |-> now]
                                 ELSE lastGet.stored[k]]]
    /\ UNCHANGED <<frontend_context, context_ticker, now, lastExec, conversations,
                   turn, events, started>>
    /\ UNCHANGED <<lastHistory, ingestVars, lastAdd>>

CacheGet(key) ==
    /\ lastGet.n < MaxCacheOps
    /\ lastGet' = [lastGet EXCEPT !.n = @ + 1, !.op = "get", !.key = key,
                                  !.at = now, !.value = ToolCache_get(key)]
    /\ UNCHANGED <<server_cache, frontend_context, context_ticker, now, lastExec,
                   conversations, turn, events, started>>
    /\ UNCHANGED <<lastHistory, ingestVars, lastAdd>>

NextCache ==
    \/ \E d \in CacheTickSteps : Tick(d, MaxTime)
    \/ \E k \in CacheKeys, data \in CacheData : CacheSet(k, data)
    \/ \E k \in CacheKeys : CacheGet(k)

SpecCache == Init /\ [][NextCache]_vars

\* C10: a ToolCache.get at time t returns the data of the key's last
\* ToolCache.set, made at t0, when t - t0 < 300 (the ttl), and None (a miss)
\* when t - t0 >= 300 or the key was never set.
C10_TtlWindow ==
    lastGet.op = "get" =>
        LET k == lastGet.key
        IN  IF k \in DOMAIN lastGet.stored /\ lastGet.at - lastGet.stored[k].t0 < 300
            THEN lastGet.value = lastGet.stored[k].data
            ELSE lastGet.value = None

\* a read exactly at the ttl has missed, and a read one second earlier has hit
C10_Witness ==
    /\ lastGet.op = "get"
    /\ lastGet.key \in DOMAIN lastGet.stored
    /\ lastGet.at - lastGet.stored[lastGet.key].t0 = 300
    /\ lastGet.value = None

C10_WitnessHit ==
    /\ lastGet.op = "get"
    /\ lastGet.key \in DOMAIN lastGet.stored
    /\ lastGet.at - lastGet.stored[lastGet.key].t0 = 299
    /\ lastGet.value = lastGet.stored[lastGet.key].data

---------------------------------------------------------------------------
(* ConversationManager: the session store *)

ttl_hours == 24

\* get_history slicing last_n messages instead of last_n exchanges
get_history_last_n(conversation_id, last_n) ==
    IF conversation_id \notin DOMAIN conversations THEN <<>>
    ELSE LET messages == conversations[conversation_id].messages
         IN  IF Len(messages) > last_n
             THEN SubSeq(messages, Len(messages) - last_n + 1, Len(messages))
             ELSE messages

\* get_history(conversation_id, last_n): the last 2 * last_n messages
get_history(conversation_id, last_n) ==
    IF conversation_id \notin DOMAIN conversations THEN <<>>
    ELSE LET messages == conversations[conversation_id].messages
         IN  IF Len(messages) > last_n * 2
             THEN SubSeq(messages, Len(messages) - last_n * 2 + 1, Len(messages))
             ELSE messages

\* AgentLLMClient.history_to_contents
history_to_contents(history) ==
    [i \in 1..Len(history) |->
        [role |-> IF history[i].role = "user" THEN "user" ELSE "model",
         text |-> history[i].content]]

---------------------------------------------------------------------------
(* get_history called directly on stores of every size *)

\* the contents of the messages of a stored session, by position
Letters == <<"a", "b", "c", "d", "e", "f", "g", "h", "i", "j", "k", "l", "m",
             "n", "o", "p">>

\* the i-th message of a session: turns append user, then assistant
HistoryMessage(i) ==
    [role |-> IF i % 2 = 1 THEN "user" ELSE "assistant", content |-> <<Letters[i]>>]

\* a session after n add_message calls
Session(n) == [messages |-> [i \in 1..n |-> HistoryMessage(i)], created_at |-> 0]

Stores ==
    UNION {[S -> {Session(n) : n \in 1..MaxMessages}] : S \in SUBSET ConvIds}

\* the ids asked for: the ids of the store and one that is never stored
HistoryIds == ConvIds \cup {"c3"}

InitHistory ==
    /\ server_cache = <<>>
    /\ frontend_context = EmptyContext
    /\ context_ticker = NoneStr
    /\ now = 0
    /\ lastExec = NoExec
    /\ lastGet = NoGet
    /\ conversations \in Stores
    /\ turn = [t \in Turns |-> IdleTurn]
    /\ events = [t \in Turns |-> <<>>]
    /\ started = 0
    /\ lastHistory = NoHistory
    /\ vector_store = NoDocuments
    /\ ingest = NoIngest
    /\ lastAdd = NoAdd

\* ConversationManager.get_history called directly: it reads the store and
\* assigns nothing
GetHistory(conversation_id, last_n) ==
    /\ lastHistory' = [n |-> 1, conversation_id |-> conversation_id,
                       last_n |-> last_n,
                       result |-> get_history(conversation_id, last_n),
                       before |-> conversations]
    /\ UNCHANGED <<agentVars, ingestVars, lastAdd>>

NextHistory ==
    \E id \in HistoryIds, last_n \in 1..MaxLastN : GetHistory(id, last_n)

SpecHistory == InitHistory /\ [][NextHistory]_vars

\* C11: get_history(id, last_n) with last_n >= 1 returns the last
\* min(len, 2 * last_n) messages of the session in their stored order, the
\* empty sequence for an id that is not stored, and leaves the store as it was.
C11_HistoryTail ==
    lastHistory.n > 0 =>
        LET b == lastHistory.before
            id == lastHistory.conversation_id
            m == IF id \in DOMAIN b THEN b[id].messages ELSE <<>>
            k == Min(Len(m), 2 * lastHistory.last_n)
        IN  /\ Len(lastHistory.result) = k
            /\ \A i \in 1..k : lastHistory.result[i] = m[Len(m) - k + i]
            /\ id \notin DOMAIN b => lastHistory.result = <<>>
            /\ conversations = b

\* the last 10 of 12 messages were returned for last_n = 5
C11_Witness ==
    /\ lastHistory.n > 0
    /\ lastHistory.last_n = 5
    /\ lastHistory.conversation_id \in DOMAIN lastHistory.before
    /\ Len(lastHistory.before[lastHistory.conversation_id].messages) = 12
    /\ Len(lastHistory.result) = 10
    /\ lastHistory.result[1] = HistoryMessage(3)
    /\ lastHistory.result[10] = HistoryMessage(12)

---------------------------------------------------------------------------
(* AgentService.process_message *)

AGENT_MAX_ITERATIONS == 2

chunk_size == 20

\* the strings of process_message, one character per element
APOLOGY_TEXT ==
    <<"I", " ", "w", "a", "s", "n", "'", "t", " ", "a", "b", "l", "e", " ",
      "t", "o", " ", "g", "e", "n", "e", "r", "a", "t", "e", " ", "a", " ",
      "r", "e", "s", "p", "o", "n", "s", "e", ".", " ", "P", "l", "e", "a",
      "s", "e", " ", "t", "r", "y", " ", "a", "g", "a", "i", "n", ".">>

FALLBACK_TEXT ==
    <<"I", " ", "g", "a", "t", "h", "e", "r", "e", "d", " ", "s", "o", "m",
      "e", " ", "i", "n", "f", "o", "r", "m", "a", "t", "i", "o", "n", " ",
      "b", "u", "t", " ", "r", "e", "a", "c", "h", "e", "d", " ", "t", "h",
      "e", " ", "m", "a", "x", "i", "m", "u", "m", " ", "n", "u", "m", "b",
      "e", "r", " ", "o", "f", " ", "a", "n", "a", "l", "y", "s", "i", "s",
      " ", "s", "t", "e", "p", "s", ".", " ", "P", "l", "e", "a", "s", "e",
      " ", "t", "r", "y", " ", "a", " ", "m", "o", "r", "e", " ", "s", "p",
      "e", "c", "i", "f", "i", "c", " ", "q", "u", "e", "s", "t", "i", "o",
      "n", ".">>

\* text fragments a model response may carry
Fragment1 ==
    <<"A", "A", "P", "L", " ", "c", "l", "o", "s", "e", "d", " ", "a", "t",
      " ">>

Fragment2 ==
    <<"1", "8", "9", ".", "8", "4", " ", "o", "n", " ", "F", "r", "i", "d",
      "a", "y", ".">>

RECURSIVE Join(_)
\* "".join(text_parts)
Join(text_parts) ==
    IF text_parts = <<>> THEN <<>> ELSE Head(text_parts) \o Join(Tail(text_parts))

\* the slice with its end off by one: final_text[i:i + chunk_size - 1]
Slice_short(text, i) == SubSeq(text, i + 1, Min(i + chunk_size - 1, Len(text)))

\* final_text[i:i + chunk_size]
Slice(text, i) == SubSeq(text, i + 1, Min(i + chunk_size, Len(text)))

\* the loop with its bound off by one
LoopDone_one_more(iteration) == iteration > AGENT_MAX_ITERATIONS

\* `for iteration in range(AGENT_MAX_ITERATIONS)` is exhausted
LoopDone(iteration) == iteration >= AGENT_MAX_ITERATIONS

---------------------------------------------------------------------------
(* Inputs of the turn-level specifications *)

TurnTickers == {"aapl"}

TurnSnapshots == {EmptyContext, FullContext}

\* the user's message, one character per element
Question ==
    <<"W", "h", "a", "t", " ", "i", "s", " ", "t", "h", "e", " ", "p", "r",
      "i", "c", "e", "?">>

Messages == {Question}

QuoteCall == [name |-> "get_stock_quote", args |-> [ticker |-> "aapl"]]

WeatherCall == [name |-> "get_weather", args |-> [ticker |-> "aapl"]]

\* what the model may answer: the request fails or the response is malformed,
\* a response without function calls, or a response with function calls
Fault == [kind |-> "fault", text_parts |-> <<>>, calls |-> <<>>]

TextResponse(text_parts) == [kind |-> "text", text_parts |-> text_parts, calls |-> <<>>]

ToolResponse(calls) == [kind |-> "tools", text_parts |-> <<>>, calls |-> calls]

Responses ==
    {Fault, TextResponse(<<>>), TextResponse(<<Fragment1, Fragment2>>),
     ToolResponse(<<QuoteCall>>), ToolResponse(<<QuoteCall, WeatherCall>>)}

\* the inputs of the specification with requests on several threads
ConcResponses == {TextResponse(<<Fragment1>>), ToolResponse(<<QuoteCall>>)}

ConcSnapshots == {EmptyContext}

\* a little more than the retention window
TurnTickSteps == {ttl_hours * 3600 + 1}

TurnTimeLimit == MaxDays * (ttl_hours * 3600 + 1)

---------------------------------------------------------------------------
(* Events *)

CallingEvent(tool, args) ==
    [type |-> "tool_call", tool |-> tool, args |-> args, status |-> "calling"]

\* lines 109-119: the event after execute returned `result`
ResultEvent(tool, result) ==
    IF "error" \in DOMAIN result
    THEN [type |-> "tool_call", tool |-> tool, status |-> "error", error |-> result.error]
    ELSE [type |-> "tool_call", tool |-> tool, status |-> "complete"]

TextEvent(chunk) == [type |-> "text", chunk |-> chunk]

DoneEvent == [type |-> "done"]

ErrorEvent(e) == [type |-> "error", message |-> "An error occurred: " \o e]

Emit(t, e) == events' = [events EXCEPT ![t] = Append(@, e)]

---------------------------------------------------------------------------
(* Turn-level actions: one per stretch of process_message between two      *)
(* points where another request can run (a yield, or a step of             *)
(* add_message, which runs on the request's thread without a lock)         *)

\* lines 136-138: the except clause yields the error event and the generator ends
Fail(t, e, tr) ==
    /\ turn' = [turn EXCEPT ![t] = [tr EXCEPT !.pc = "finished", !.raised = e]]
    /\ Emit(t, ErrorEvent(e))

\* lines 50-63: set_context, get_history, the transcript
StartTurn(t, ticker, message, fc, cid) ==
    /\ turn[t].pc = "idle"
    /\ started < MaxRequests
    /\ started' = started + 1
    /\ LET tk == IF ticker # "" THEN Upper(ticker) ELSE ""
           history == get_history(cid, 5)
       IN  /\ frontend_context' = set_context(fc, tk).frontend_context
           /\ context_ticker' = set_context(fc, tk).context_ticker
           /\ turn' = [turn EXCEPT ![t] =
                  [IdleTurn EXCEPT
                     !.pc = IF LoopDone(0) THEN "fallback" ELSE "generate",
                     !.ticker = tk, !.frontend_context = fc,
                     !.message = message, !.cid = cid,
                     !.contents = Append(history_to_contents(history),
                                         [role |-> "user", text |-> message]),
                     !.store0 = conversations,
                     !.len0 = IF cid \in DOMAIN conversations
                              THEN Len(conversations[cid].messages) ELSE 0]]
    /\ UNCHANGED <<server_cache, now, lastExec, lastGet, conversations, events>>
    /\ UNCHANGED <<lastHistory, ingestVars, lastAdd>>

\* lines 69-76 and 90-92: one model request and the branch on its response
Generate(t, resp) ==
    /\ turn[t].pc = "generate"
    /\ LET tr == [turn[t] EXCEPT !.requests = @ + 1]
           final_text == Join(resp.text_parts)
       IN  CASE resp.kind = "fault" -> Fail(t, "model request failed", tr)
             [] resp.kind = "text" ->
                  /\ turn' = [turn EXCEPT ![t] =
                        [tr EXCEPT !.pc = "text", !.pos = 0,
                                   !.text_parts = resp.text_parts,
                                   !.final_text = IF final_text = <<>>
                                                  THEN APOLOGY_TEXT ELSE final_text]]
                  /\ UNCHANGED events
             [] resp.kind = "tools" ->
                  /\ turn' = [turn EXCEPT ![t] =
                        [tr EXCEPT !.pc = "call", !.calls = resp.calls, !.idx = 1,
                                   !.parts = <<>>, !.tool_rounds = @ + 1,
                                   !.contents = Append(@, [role |-> "model",
                                                           calls |-> resp.calls])]]
                  /\ UNCHANGED events
    /\ UNCHANGED <<server_cache, frontend_context, context_ticker, now, lastExec,
                   lastGet, conversations, started>>
    /\ UNCHANGED <<lastHistory, ingestVars, lastAdd>>

\* lines 79-80: the next slice of the final text
YieldText(t) ==
    /\ turn[t].pc = "text"
    /\ turn[t].pos < Len(turn[t].final_text)
    /\ Emit(t, TextEvent(Slice(turn[t].final_text, turn[t].pos)))
    /\ turn' = [turn EXCEPT ![t].pos = @ + chunk_size]
    /\ UNCHANGED <<server_cache, frontend_context, context_ticker, now, lastExec,
                   lastGet, conversations, started>>
    /\ UNCHANGED <<lastHistory, ingestVars, lastAdd>>

\* line 82: done; the generator resumes at the first add_message
YieldDone(t) ==
    /\ turn[t].pc = "text"
    /\ turn[t].pos >= Len(turn[t].final_text)
    /\ Emit(t, DoneEvent)
    /\ turn' = [turn EXCEPT ![t].pc = "am_check", ![t].role = "user"]
    /\ UNCHANGED <<server_cache, frontend_context, context_ticker, now, lastExec,
                   lastGet, conversations, started>>
    /\ UNCHANGED <<lastHistory, ingestVars, lastAdd>>

\* lines 99-103: tool_call{calling} for the current call
ToolCalling(t) ==
    /\ turn[t].pc = "call"
    /\ Emit(t, CallingEvent(turn[t].calls[turn[t].idx].name,
                            turn[t].calls[turn[t].idx].args))
    /\ turn' = [turn EXCEPT ![t].pc = "exec"]
    /\ UNCHANGED <<server_cache, frontend_context, context_ticker, now, lastExec,
                   lastGet, conversations, started>>
    /\ UNCHANGED <<lastHistory, ingestVars, lastAdd>>

\* lines 121-130 with the call at the loop's head skipped on an error
\* result: the remaining calls of the iteration are dropped
AfterCall_stop_on_error(tr, call, out) ==
    LET parts == Append(tr.parts, [name |-> call.name, response |-> out.result])
    IN  IF tr.idx < Len(tr.calls) /\ "error" \notin DOMAIN out.result
        THEN [tr EXCEPT !.out = out, !.parts = parts, !.idx = @ + 1, !.pc = "call"]
        ELSE [tr EXCEPT !.out = out, !.parts = parts,
                        !.contents = Append(@, [role |-> "tool", parts |-> parts]),
                        !.iteration = @ + 1,
                        !.pc = IF LoopDone(tr.iteration + 1)
                               THEN "fallback" ELSE "generate"]

\* lines 121-130 with one tool turn appended per call instead of one per
\* iteration
AfterCall_turn_per_call(tr, call, out) ==
    LET part == [name |-> call.name, response |-> out.result]
        parts == Append(tr.parts, part)
        contents == Append(tr.contents, [role |-> "tool", parts |-> <<part>>])
    IN  IF tr.idx < Len(tr.calls)
        THEN [tr EXCEPT !.out = out, !.parts = parts, !.contents = contents,
                        !.idx = @ + 1, !.pc = "call"]
        ELSE [tr EXCEPT !.out = out, !.parts = parts, !.contents = contents,
                        !.iteration = @ + 1,
                        !.pc = IF LoopDone(tr.iteration + 1)
                               THEN "fallback" ELSE "generate"]

\* lines 121-130: the response part is collected; after the last call the
\* parts become one tool turn and the next iteration starts
AfterCall(tr, call, out) ==
    LET parts == Append(tr.parts, [name |-> call.name, response |-> out.result])
    IN  IF tr.idx < Len(tr.calls)
        THEN [tr EXCEPT !.out = out, !.parts = parts, !.idx = @ + 1, !.pc = "call"]
        ELSE [tr EXCEPT !.out = out, !.parts = parts,
                        !.contents = Append(@, [role |-> "tool", parts |-> parts]),
                        !.iteration = @ + 1,
                        !.pc = IF LoopDone(tr.iteration + 1)
                               THEN "fallback" ELSE "generate"]

\* lines 106-130 without the event of the error branch (lines 109-114)
ToolExec_no_error_event(t, live) ==
    /\ turn[t].pc = "exec"
    /\ LET tr == [turn[t] EXCEPT !.execs = @ + 1]
           call == tr.calls[tr.idx]
           out == execute(call.name, call.args, live)
       IN  /\ server_cache' = ApplySets(server_cache, out.sets)
           /\ IF "error" \in DOMAIN out.result
              THEN UNCHANGED events
              ELSE Emit(t, ResultEvent(call.name, out.result))
           /\ turn' = [turn EXCEPT ![t] = AfterCall(tr, call, out)]
    /\ UNCHANGED <<frontend_context, context_ticker, now, lastExec, lastGet,
                   conversations, started>>
    /\ UNCHANGED <<lastHistory, ingestVars, lastAdd>>

\* lines 106-130: execute, the complete/error event, and the rest of the
\* loop body
ToolExec(t, live) ==
    /\ turn[t].pc = "exec"
    /\ LET tr == [turn[t] EXCEPT !.execs = @ + 1]
           call == tr.calls[tr.idx]
           out == execute(call.name, call.args, live)
       IN  /\ server_cache' = ApplySets(server_cache, out.sets)
           /\ Emit(t, ResultEvent(call.name, out.result))
           /\ turn' = [turn EXCEPT ![t] = AfterCall(tr, call, out)]
    /\ UNCHANGED <<frontend_context, context_ticker, now, lastExec, lastGet,
                   conversations, started>>
    /\ UNCHANGED <<lastHistory, ingestVars, lastAdd>>

\* line 133: the fallback text, in one event
Fallback(t) ==
    /\ turn[t].pc = "fallback"
    /\ Emit(t, TextEvent(FALLBACK_TEXT))
    /\ turn' = [turn EXCEPT ![t].pc = "fallback_done"]
    /\ UNCHANGED <<server_cache, frontend_context, context_ticker, now, lastExec,
                   lastGet, conversations, started>>
    /\ UNCHANGED <<lastHistory, ingestVars, lastAdd>>

\* line 134 followed by the two add_message calls of the text branch, with
\* the fallback as the assistant's text
FallbackDone_persist(t) ==
    /\ turn[t].pc = "fallback_done"
    /\ Emit(t, DoneEvent)
    /\ turn' = [turn EXCEPT ![t].pc = "am_check", ![t].role = "user",
                            ![t].final_text = FALLBACK_TEXT]
    /\ UNCHANGED <<server_cache, frontend_context, context_ticker, now, lastExec,
                   lastGet, conversations, started>>
    /\ UNCHANGED <<lastHistory, ingestVars, lastAdd>>

\* line 134: done; the generator ends
FallbackDone(t) ==
    /\ turn[t].pc = "fallback_done"
    /\ Emit(t, DoneEvent)
    /\ turn' = [turn EXCEPT ![t].pc = "finished"]
    /\ UNCHANGED <<server_cache, frontend_context, context_ticker, now, lastExec,
                   lastGet, conversations, started>>
    /\ UNCHANGED <<lastHistory, ingestVars, lastAdd>>

\* the content add_message is called with (lines 85-86)
Content(tr) == IF tr.role = "user" THEN tr.message ELSE tr.final_text

\* add_message line 135: the membership test
AddCheck(t) ==
    /\ turn[t].pc = "am_check"
    /\ turn' = [turn EXCEPT ![t].pc = IF turn[t].cid \notin DOMAIN conversations
                                      THEN "am_create" ELSE "am_append"]
    /\ UNCHANGED <<server_cache, frontend_context, context_ticker, now, lastExec,
                   lastGet, conversations, events, started>>
    /\ UNCHANGED <<lastHistory, ingestVars, lastAdd>>

\* add_message lines 136-139: a new, empty session
AddCreate(t) ==
    /\ turn[t].pc = "am_create"
    /\ conversations' =
          [c \in DOMAIN conversations \cup {turn[t].cid} |->
              IF c = turn[t].cid THEN [messages |-> <<>>, created_at |-> now]
              ELSE conversations[c]]
    /\ turn' = [turn EXCEPT ![t].pc = "am_append", ![t].writes = @ + 1]
    /\ UNCHANGED <<server_cache, frontend_context, context_ticker, now, lastExec,
                   lastGet, events, started>>
    /\ UNCHANGED <<lastHistory, ingestVars, lastAdd>>

\* add_message lines 141-144: the append; KeyError when the session is gone
AddAppend(t) ==
    /\ turn[t].pc = "am_append"
    /\ IF turn[t].cid \notin DOMAIN conversations
       THEN /\ Fail(t, "KeyError", turn[t])
            /\ UNCHANGED conversations
       ELSE /\ conversations' =
                  [conversations EXCEPT ![turn[t].cid].messages =
                      Append(@, [role |-> turn[t].role, content |-> Content(turn[t])])]
            /\ turn' = [turn EXCEPT ![t].pc = "am_iter", ![t].writes = @ + 1,
                                    ![t].appended = @ + 1]
            /\ UNCHANGED events
    /\ UNCHANGED <<server_cache, frontend_context, context_ticker, now, lastExec,
                   lastGet, started>>
    /\ UNCHANGED <<lastHistory, ingestVars, lastAdd>>

\* _cleanup_old_conversations lines 175-178: the cutoff, and the iterator
\* over conversations.items() remembers the dict's size
CleanupBegin(t) ==
    /\ turn[t].pc = "am_iter"
    /\ turn' = [turn EXCEPT ![t].pc = "am_scan", ![t].cutoff = now - ttl_hours * 3600,
                            ![t].used = Cardinality(DOMAIN conversations)]
    /\ UNCHANGED <<server_cache, frontend_context, context_ticker, now, lastExec,
                   lastGet, conversations, events, started>>
    /\ UNCHANGED <<lastHistory, ingestVars, lastAdd>>

\* lines 177-180: the iteration ends; RuntimeError when the dict changed size
\* under the iterator
CleanupScan(t) ==
    /\ turn[t].pc = "am_scan"
    /\ IF Cardinality(DOMAIN conversations) # turn[t].used
       THEN Fail(t, "RuntimeError", turn[t])
       ELSE /\ turn' = [turn EXCEPT ![t].pc = "am_del",
                           ![t].to_delete =
                               {c \in DOMAIN conversations :
                                   conversations[c].created_at < turn[t].cutoff}]
            /\ UNCHANGED events
    /\ UNCHANGED <<server_cache, frontend_context, context_ticker, now, lastExec,
                   lastGet, conversations, started>>
    /\ UNCHANGED <<lastHistory, ingestVars, lastAdd>>

\* lines 182-183: one `del`; KeyError when the id is gone
CleanupDelete(t, c) ==
    /\ turn[t].pc = "am_del"
    /\ c \in turn[t].to_delete
    /\ IF c \notin DOMAIN conversations
       THEN /\ Fail(t, "KeyError", turn[t])
            /\ UNCHANGED conversations
       ELSE /\ conversations' = [d \in DOMAIN conversations \ {c} |-> conversations[d]]
            /\ turn' = [turn EXCEPT ![t].to_delete = @ \ {c}, ![t].writes = @ + 1]
            /\ UNCHANGED events
    /\ UNCHANGED <<server_cache, frontend_context, context_ticker, now, lastExec,
                   lastGet, started>>
    /\ UNCHANGED <<lastHistory, ingestVars, lastAdd>>

\* add_message returns: on to the assistant message (line 86), or the
\* generator ends (line 87)
AddReturn(t) ==
    /\ turn[t].pc = "am_del"
    /\ turn[t].to_delete = {}
    /\ turn' = [turn EXCEPT ![t].pc = IF turn[t].role = "user" THEN "am_check"
                                      ELSE "finished",
                            ![t].role = "assistant"]
    /\ UNCHANGED <<server_cache, frontend_context, context_ticker, now, lastExec,
                   lastGet, conversations, events, started>>
    /\ UNCHANGED <<lastHistory, ingestVars, lastAdd>>

\* the consumer has read the whole stream; the request is over
Return(t) ==
    /\ turn[t].pc = "finished"
    /\ turn' = [turn EXCEPT ![t] = IdleTurn]
    /\ events' = [events EXCEPT ![t] = <<>>]
    /\ UNCHANGED <<server_cache, frontend_context, context_ticker, now, lastExec,
                   lastGet, conversations, started>>
    /\ UNCHANGED <<lastHistory, ingestVars, lastAdd>>

\* a step of the request in slot t
TurnStep(t, responses) ==
    \/ \E resp \in responses : Generate(t, resp)
    \/ YieldText(t)
    \/ YieldDone(t)
    \/ ToolCalling(t)
    \/ /\ turn[t].pc = "exec"
       /\ \E live \in LiveOutcomes(turn[t].calls[turn[t].idx].name) : ToolExec(t, live)
    \/ Fallback(t)
    \/ FallbackDone(t)
    \/ AddCheck(t)
    \/ AddCreate(t)
    \/ AddAppend(t)
    \/ CleanupBegin(t)
    \/ CleanupScan(t)
    \/ \E c \in ConvIds : CleanupDelete(t, c)
    \/ AddReturn(t)
    \/ Return(t)

Begin(t, snapshots) ==
    \E tk \in TurnTickers, m \in Messages, fc \in snapshots, cid \in ConvIds :
        StartTurn(t, tk, m, fc, cid)

\* no request is being handled
Quiet == \A t \in Turns : turn[t].pc = "idle"

\* a day passes between two requests
DayPasses == Quiet /\ \E d \in TurnTickSteps : Tick(d, TurnTimeLimit)

\* one request at a time, handled in the first slot
Next ==
    \/ DayPasses
    \/ Quiet /\ Begin(1, TurnSnapshots)
    \/ \E t \in Turns : TurnStep(t, Responses)

Spec == Init /\ [][Next]_vars

\* requests on several threads
NextConc ==
    \/ DayPasses
    \/ \E t \in Turns : Begin(t, ConcSnapshots)
    \/ \E t \in Turns : TurnStep(t, ConcResponses)

SpecConc == Init /\ [][NextConc]_vars

---------------------------------------------------------------------------
(* Properties of a turn *)

Terminal(e) == e.type \in {"done", "error"}

\* the positions of the terminal events in the events of slot t
TerminalAt(t) == {i \in 1..Len(events[t]) : Terminal(events[t][i])}

\* the positions of the events of one type
EventsOf(t, type) == {i \in 1..Len(events[t]) : events[t][i].type = type}

\* C1: the events of a turn hold at most one terminal event (done or error,
\* never both), nothing follows it, and a turn whose generator has ended has
\* emitted one.
C1_OneTerminal ==
    \A t \in Turns :
        /\ Cardinality(TerminalAt(t)) <= 1
        /\ TerminalAt(t) # {} => TerminalAt(t) = {Len(events[t])}
        /\ turn[t].pc = "finished" => TerminalAt(t) # {}

\* C2: no turn makes more than AGENT_MAX_ITERATIONS model requests, and a
\* turn that has ended after responses that all requested tool calls has made
\* exactly AGENT_MAX_ITERATIONS requests and its events end with the one
\* fallback text event followed by done, every tool_call event before them.
C2_BudgetExhausted ==
    \A t \in Turns :
        /\ turn[t].requests <= AGENT_MAX_ITERATIONS
        /\ (turn[t].pc = "finished" /\ turn[t].tool_rounds = turn[t].requests) =>
              LET n == Len(events[t])
              IN  /\ turn[t].requests = AGENT_MAX_ITERATIONS
                  /\ n >= 2
                  /\ events[t][n] = [type |-> "done"]
                  /\ events[t][n - 1] = [type |-> "text", chunk |-> FALLBACK_TEXT]
                  /\ \A i \in 1..(n - 2) : events[t][i].type = "tool_call"

\* a turn ended on the exhausted budget
C2_Witness ==
    \E t \in Turns :
        /\ turn[t].pc = "finished"
        /\ turn[t].tool_rounds = AGENT_MAX_ITERATIONS
        /\ turn[t].requests = AGENT_MAX_ITERATIONS
        /\ events[t][Len(events[t])].type = "done"

\* C3: a turn in which an exception was raised has emitted exactly one error
\* event, as its last event, and has changed nothing in the session store.
C3_FaultLeavesStore ==
    \A t \in Turns :
        turn[t].raised # "" =>
            /\ EventsOf(t, "error") = {Len(events[t])}
            /\ turn[t].writes = 0

\* C4: when a turn has ended with a final text response, its session exists
\* and is the session found at the start of the turn followed by two
\* messages: the user message, then the assistant message with the final text.
C4_TwoNewMessages ==
    \A t \in Turns :
        (turn[t].pc = "finished" /\ turn[t].raised = ""
            /\ turn[t].role = "assistant") =>
            /\ turn[t].cid \in DOMAIN conversations
            /\ LET m == conversations[turn[t].cid].messages
               IN  /\ Len(m) = turn[t].len0 + 2
                   /\ m[Len(m) - 1] = [role |-> "user", content |-> turn[t].message]
                   /\ m[Len(m)] = [role |-> "assistant", content |-> turn[t].final_text]

\* the turn in slot t has written its user message and not yet its
\* assistant message
Between(t) ==
    \/ turn[t].role = "user" /\ turn[t].pc \in {"am_iter", "am_scan", "am_del"}
    \/ turn[t].role = "assistant" /\ turn[t].pc \in {"am_check", "am_create", "am_append"}

\* C5: a session no turn is between its two writes for consists of
\* (user, assistant) pairs: even length, roles alternating from user.
C5_Pairs ==
    \A c \in DOMAIN conversations :
        (~ \E t \in Turns : turn[t].cid = c /\ Between(t)) =>
            LET m == conversations[c].messages
            IN  /\ Len(m) % 2 = 0
                /\ \A i \in 1..Len(m) :
                      m[i].role = IF i % 2 = 1 THEN "user" ELSE "assistant"

\* C7: when the handler of a tool call raises, execute returns an error
\* value, the turn emits tool_call{status=error} for that call and no error
\* event, the response part is collected, and the turn goes on with the next
\* call of the iteration or, after the last one, with the next model request
\* (the fallback when the budget is used up).
C7_ToolFaultContained ==
    [][\A t \in Turns :
          (turn[t].pc = "exec" /\ turn'[t] # turn[t] /\ turn'[t].out.raised # "") =>
              LET tr == turn[t]
                  call == tr.calls[tr.idx]
                  result == turn'[t].out.result
              IN  /\ "error" \in DOMAIN result
                  /\ events'[t] = Append(events[t],
                        [type |-> "tool_call", tool |-> call.name,
                         status |-> "error", error |-> result.error])
                  /\ turn'[t].raised = ""
                  /\ turn'[t].calls = tr.calls
                  /\ Len(turn'[t].parts) = tr.idx
                  /\ turn'[t].parts[tr.idx] = [name |-> call.name, response |-> result]
                  /\ IF tr.idx < Len(tr.calls)
                     THEN turn'[t].pc = "call" /\ turn'[t].idx = tr.idx + 1
                     ELSE turn'[t].pc = IF tr.iteration + 1 < AGENT_MAX_ITERATIONS
                                        THEN "generate" ELSE "fallback"]_vars

\* the first of two calls raised, and the second call is being announced
C7_Witness ==
    \E t \in Turns :
        /\ turn[t].pc = "exec"
        /\ turn[t].idx = 2
        /\ turn[t].out.raised # ""
        /\ turn[t].raised = ""
        /\ Len(events[t]) >= 3
        /\ events[t][Len(events[t]) - 1].status = "error"
        /\ events[t][Len(events[t])].status = "calling"

\* the turn in slot t is inside an iteration that requested tool calls: the
\* model's turn is in the transcript, the tool turn is not yet
InCalls(t) == turn[t].pc \in {"call", "exec"}

\* the position of the user message in the transcript of slot t, when every
\* iteration so far added two turns
Base(t) == Len(turn[t].contents) - 2 * turn[t].iteration - (IF InCalls(t) THEN 1 ELSE 0)

\* C12: the transcript of a turn is the history, the user message, and per
\* completed tool iteration exactly two turns: the model's turn with its k >= 1
\* calls, then one tool turn with exactly k response parts naming the calls in
\* the order requested, failed or not; during an iteration the model's turn
\* is last and the parts collected so far are those of the calls already made.
C12_OneToolTurn ==
    \A t \in Turns :
        turn[t].pc # "idle" =>
            LET c == turn[t].contents
                b == Base(t)
            IN  /\ b >= 1
                /\ c[b] = [role |-> "user", text |-> turn[t].message]
                /\ \A i \in 1..b : c[i].role \in {"user", "model"} /\ "text" \in DOMAIN c[i]
                /\ \A j \in 1..turn[t].iteration :
                      LET m == c[b + 2 * j - 1]
                          r == c[b + 2 * j]
                      IN  /\ m.role = "model" /\ Len(m.calls) >= 1
                          /\ r.role = "tool" /\ Len(r.parts) = Len(m.calls)
                          /\ \A i \in 1..Len(m.calls) :
                                /\ r.parts[i].name = m.calls[i].name
                                /\ "response" \in DOMAIN r.parts[i]
                /\ InCalls(t) =>
                      /\ c[Len(c)] = [role |-> "model", calls |-> turn[t].calls]
                      /\ Len(turn[t].parts) = turn[t].idx - 1
                      /\ \A i \in 1..Len(turn[t].parts) :
                            turn[t].parts[i].name = turn[t].calls[i].name

\* an iteration with two calls, the first failed in its handler and the
\* second unknown, has ended: its tool turn holds both parts in order
C12_Witness ==
    \E t \in Turns :
        /\ turn[t].iteration >= 1
        /\ turn[t].pc \in {"generate", "fallback"}
        /\ LET c == turn[t].contents
               r == c[Len(c)]
           IN  /\ r.role = "tool"
               /\ Len(r.parts) = 2
               /\ r.parts[1].name = "get_stock_quote"
               /\ "error" \in DOMAIN r.parts[1].response
               /\ r.parts[2].name = "get_weather"
               /\ "error" \in DOMAIN r.parts[2].response
               /\ c[Len(c) - 1] = [role |-> "model", calls |-> <<QuoteCall, WeatherCall>>]

\* the event is tool_call{calling}
IsCalling(e) == e.type = "tool_call" /\ e.status = "calling"

\* the event is tool_call{complete} or tool_call{error}
IsResult(e) == e.type = "tool_call" /\ e.status \in {"complete", "error"}

\* C13: in the events of a turn every calling event is directly followed by
\* one complete or error event for the same tool (or execute is about to be
\* called for it), every complete or error event directly follows the
\* calling event of its tool, execute has been called once per such pair,
\* the calling events of an iteration name its calls in the order requested,
\* no tool_call event follows a text event, and neither a text nor a
\* tool_call event follows done.
C13_EventProtocol ==
    \A t \in Turns :
        LET e == events[t]
            n == Len(e)
        IN  /\ \A i \in 1..n :
                  /\ IsCalling(e[i]) =>
                        IF i < n THEN IsResult(e[i + 1]) /\ e[i + 1].tool = e[i].tool
                        ELSE turn[t].pc = "exec"
                  /\ IsResult(e[i]) =>
                        i > 1 /\ IsCalling(e[i - 1]) /\ e[i - 1].tool = e[i].tool
            /\ turn[t].execs = Cardinality({i \in 1..n : IsResult(e[i])})
            /\ InCalls(t) =>
                  LET done == turn[t].idx - 1
                      n0 == n - 2 * done - (IF turn[t].pc = "exec" THEN 1 ELSE 0)
                  IN  /\ n0 >= 0
                      /\ \A k \in 1..done :
                            e[n0 + 2 * k - 1] = CallingEvent(turn[t].calls[k].name,
                                                             turn[t].calls[k].args)
                      /\ turn[t].pc = "exec" =>
                            e[n] = CallingEvent(turn[t].calls[turn[t].idx].name,
                                                turn[t].calls[turn[t].idx].args)
            /\ \A i \in 1..n : \A j \in (i + 1)..n :
                  /\ e[i].type = "text" => e[j].type # "tool_call"
                  /\ e[i].type = "done" => e[j].type \notin {"text", "tool_call"}

\* a turn has ended with calling, complete, two text chunks and done
C13_Witness ==
    \E t \in Turns :
        /\ turn[t].pc = "finished"
        /\ Len(events[t]) = 5
        /\ IsCalling(events[t][1])
        /\ events[t][2] = [type |-> "tool_call", tool |-> "get_stock_quote",
                           status |-> "complete"]
        /\ events[t][3].type = "text"
        /\ events[t][4].type = "text"
        /\ events[t][5].type = "done"

\* C14: every text event of every turn carries a chunk of at most 20
\* characters, whichever path emitted it (final text, apology, fallback).
C14_ChunksBounded ==
    \A t \in Turns : \A i \in 1..Len(events[t]) :
        events[t][i].type = "text" => Len(events[t][i].chunk) <= 20

\* the chunks of the text events of slot t, in emission order
Chunks(t) ==
    LET texts == SelectSeq(events[t], LAMBDA e : e.type = "text")
    IN  [j \in 1..Len(texts) |-> texts[j].chunk]

RECURSIVE Offset(_, _)
\* the number of characters in the fragments before the k-th
Offset(parts, k) == IF k <= 1 THEN 0 ELSE Offset(parts, k - 1) + Len(parts[k - 1])

\* text is the fragments one after the other, or the apology when they are
\* all empty
IsFinalText(text, parts) ==
    LET total == Offset(parts, Len(parts) + 1)
    IN  IF total = 0 THEN text = APOLOGY_TEXT
        ELSE /\ Len(text) = total
             /\ \A k \in 1..Len(parts) : \A i \in 1..Len(parts[k]) :
                   text[Offset(parts, k) + i] = parts[k][i]

\* C15: in a turn whose response carried no tool call, the final text is the
\* model's text fragments one after the other (the apology when that is
\* empty); the j-th text chunk emitted is the j-th run of 20 characters of
\* the final text, so every chunk but the last has exactly 20 characters and,
\* once done is emitted, the chunks together are the final text; and when the
\* turn has ended, the assistant message persisted last is that final text.
C15_ChunksAreFinalText ==
    \A t \in Turns :
        turn[t].final_text # <<>> =>
            LET text == turn[t].final_text
                chunks == Chunks(t)
                n == Len(chunks)
            IN  /\ IsFinalText(text, turn[t].text_parts)
                /\ \A j \in 1..n :
                      /\ Len(chunks[j]) = Min(20, Len(text) - 20 * (j - 1))
                      /\ Len(chunks[j]) > 0
                      /\ \A i \in 1..Len(chunks[j]) :
                            chunks[j][i] = text[20 * (j - 1) + i]
                /\ turn[t].pc # "text" => 20 * (n - 1) < Len(text) /\ Len(text) <= 20 * n
                /\ (turn[t].pc = "finished" /\ turn[t].raised = "") =>
                      /\ turn[t].cid \in DOMAIN conversations
                      /\ LET m == conversations[turn[t].cid].messages
                         IN  /\ Len(m) >= 1
                             /\ m[Len(m)] = [role |-> "assistant", content |-> text]

\* a turn has ended whose final text, of two fragments and 32 characters,
\* went out as a chunk of 20 and a chunk of 12
C15_Witness ==
    \E t \in Turns :
        /\ turn[t].pc = "finished"
        /\ turn[t].raised = ""
        /\ turn[t].text_parts = <<Fragment1, Fragment2>>
        /\ Len(turn[t].final_text) = 32
        /\ Len(Chunks(t)) = 2
        /\ Len(Chunks(t)[1]) = 20
        /\ Len(Chunks(t)[2]) = 12

\* a turn whose response carried no text has emitted the apology in chunks
\* of 20, 20 and 15 characters
C15_WitnessApology ==
    \E t \in Turns :
        /\ turn[t].pc = "finished"
        /\ turn[t].text_parts = <<>>
        /\ turn[t].final_text = APOLOGY_TEXT
        /\ Len(Chunks(t)) = 3
        /\ Len(Chunks(t)[3]) = 15

\* the turn in slot t has ended on the exhausted budget
Exhausted(t) ==
    /\ turn[t].pc = "finished"
    /\ turn[t].raised = ""
    /\ turn[t].requests = AGENT_MAX_ITERATIONS
    /\ turn[t].tool_rounds = AGENT_MAX_ITERATIONS

\* the history a turn would be given for id c from the store `store`
HistoryOf(store, c) ==
    IF c \in DOMAIN store THEN store[c].messages ELSE <<>>

\* C16: when a turn has ended by budget exhaustion the session store is what
\* it was when the turn started (no user message, no fallback text), and
\* get_history for the turn's id returns what it returned then.
C16_FallbackNotPersisted ==
    \A t \in Turns :
        Exhausted(t) =>
            /\ conversations = turn[t].store0
            /\ turn[t].writes = 0
            /\ get_history(turn[t].cid, 5) = HistoryOf(turn[t].store0, turn[t].cid)

\* a turn on a session of two messages has ended by budget exhaustion
C16_Witness ==
    \E t \in Turns :
        /\ Exhausted(t)
        /\ events[t][Len(events[t]) - 1] = [type |-> "text", chunk |-> FALLBACK_TEXT]
        /\ turn[t].cid \in DOMAIN conversations
        /\ Len(conversations[turn[t].cid].messages) = 2

\* the appends made to session c by the requests being handled, one pair
\* <<slot, k>> per append
Appends(c) ==
    {p \in Turns \X (1..2) : turn[p[1]].cid = c /\ p[2] <= turn[p[1]].appended}

\* C20: while no session is old enough to be swept, no message and no
\* session is lost to concurrent add_message calls: a session that the
\* requests being handled have appended n >= 1 messages to exists and holds
\* n messages more than it held before them, among them every message a
\* request has appended.
C20_NoLostMessage ==
    (now = 0 /\ \A t \in Turns : turn[t].pc # "idle") =>
        \A c \in ConvIds :
            Appends(c) # {} =>
                /\ c \in DOMAIN conversations
                /\ Len(conversations[c].messages) = Cardinality(Appends(c))
                /\ \A t \in Turns :
                      (turn[t].cid = c /\ turn[t].appended >= 1) =>
                          \E i \in 1..Len(conversations[c].messages) :
                              conversations[c].messages[i] =
                                  [role |-> "user", content |-> turn[t].message]

---------------------------------------------------------------------------
(* AgentService.scrape_and_embed_articles                                  *)
(*                                                                         *)
(* A text (scraped content, description) is its number of characters: the  *)
(* code tests it for emptiness and for len(content) < 50 only.  A task is  *)
(* one process_article call on a pool thread; `ops` lists the collaborator *)
(* calls it has made.                                                      *)

max_workers == 5

BatchLimit == 20

MinContent == 50

\* hashlib.md5(article_url.encode()).hexdigest()[:12] on the urls of the model
md5_12(article_url) ==
    CASE article_url = "u1" -> "6e3e0b2f14a7"
      [] article_url = "u2" -> "9c1d55e0b3aa"
      [] OTHER -> "d41d8cd98f00"

\* line 158
DocId(ticker, article_url) == ticker \o "_news_" \o md5_12(article_url)

\* VectorStore.document_exists
document_exists(doc_id) == doc_id \in DOMAIN vector_store.documents

\* VectorStore.upsert_document succeeding: one document under the identifier
upsert_document(vs, doc_id) ==
    [vs EXCEPT !.documents =
        [d \in DOMAIN vs.documents \cup {doc_id} |->
            IF d = doc_id THEN 1 ELSE vs.documents[d]]]

\* VectorStore.save
save(vs) == [vs EXCEPT !.saves = @ + 1]

QueuedTask == [pc |-> "queued", doc_id |-> "", content |-> 0, status |-> "", ops |-> <<>>]

\* process_article returns `status`
TaskDone(task, status) == [task EXCEPT !.pc = "done", !.status = status]

\* the tasks that hold a pool thread
Running == {i \in 1..Len(ingest.tasks) : ingest.tasks[i].pc \notin {"queued", "done"}}

\* a pool that gives every submitted task a thread at once
MayStart_no_limit(i) ==
    /\ ingest.pc = "running"
    /\ i \in 1..Len(ingest.tasks)
    /\ ingest.tasks[i].pc = "queued"
    /\ \A j \in 1..(i - 1) : ingest.tasks[j].pc # "queued"

\* the pool starts the submitted tasks in order, max_workers at a time
MayStart(i) ==
    /\ ingest.pc = "running"
    /\ i \in 1..Len(ingest.tasks)
    /\ ingest.tasks[i].pc = "queued"
    /\ \A j \in 1..(i - 1) : ingest.tasks[j].pc # "queued"
    /\ Cardinality(Running) < max_workers

SetTask(i, task) == ingest' = [ingest EXCEPT !.tasks[i] = task]

\* lines 140-153 and 191-192: a call; the first BatchLimit articles are
\* submitted to the pool
StartIngest(ticker, articles) ==
    /\ ingest.pc \in {"idle", "returned"}
    /\ ingest.n < MaxIngests
    /\ LET batch == Take(articles, BatchLimit)
       IN  ingest' = [n |-> ingest.n + 1, pc |-> "running", ticker |-> ticker,
                      articles |-> articles,
                      tasks |-> [i \in 1..Len(batch) |-> QueuedTask],
                      collected |-> {}, results |-> NoResults, saves |-> 0,
                      returned |-> None,
                      prev |-> IF ingest.n = 0 THEN None
                               ELSE [ticker |-> ingest.ticker,
                                     articles |-> ingest.articles,
                                     status |-> [i \in 1..Len(ingest.tasks) |->
                                                   ingest.tasks[i].status],
                                     returned |-> ingest.returned]]
    /\ UNCHANGED <<agentVars, lastHistory, lastAdd, vector_store>>

\* lines 156-161 without the existence check of lines 160-161
TaskExists_no_check(i) ==
    /\ MayStart(i)
    /\ LET doc_id == DocId(ingest.ticker, ingest.articles[i].article_url)
       IN  SetTask(i, [ingest.tasks[i] EXCEPT !.doc_id = doc_id, !.pc = "scrape"])
    /\ UNCHANGED <<agentVars, lastHistory, lastAdd, vector_store>>

\* lines 156-161: a pool thread takes the task; the identifier and the
\* existence check
TaskExists(i) ==
    /\ MayStart(i)
    /\ LET doc_id == DocId(ingest.ticker, ingest.articles[i].article_url)
           task == [ingest.tasks[i] EXCEPT !.doc_id = doc_id, !.ops = Append(@, "exists")]
       IN  SetTask(i, IF document_exists(doc_id) THEN TaskDone(task, "skipped")
                      ELSE [task EXCEPT !.pc = "scrape"])
    /\ UNCHANGED <<agentVars, lastHistory, lastAdd, vector_store>>

\* lines 163-167 with the length test applied to the scraped text as well
TaskScrape_measure_all(i, scraped) ==
    /\ ingest.pc = "running"
    /\ i \in 1..Len(ingest.tasks)
    /\ ingest.tasks[i].pc = "scrape"
    /\ LET task == [ingest.tasks[i] EXCEPT !.ops = Append(@, "scrape")]
           content == IF scraped.len = 0 THEN ingest.articles[i].description
                      ELSE scraped.len
       IN  SetTask(i, IF scraped.raised THEN TaskDone(task, "failed")
                      ELSE IF content = 0 \/ content < MinContent
                      THEN TaskDone(task, "failed")
                      ELSE [task EXCEPT !.pc = "embed", !.content = content])
    /\ UNCHANGED <<agentVars, lastHistory, lastAdd, vector_store>>

\* lines 163-167: scrape_article returned scraped.len characters (0: nothing),
\* or raised; only the description that stands in for it is measured
TaskScrape(i, scraped) ==
    /\ ingest.pc = "running"
    /\ i \in 1..Len(ingest.tasks)
    /\ ingest.tasks[i].pc = "scrape"
    /\ LET task == [ingest.tasks[i] EXCEPT !.ops = Append(@, "scrape")]
           description == ingest.articles[i].description
       IN  SetTask(i, IF scraped.raised THEN TaskDone(task, "failed")
                      ELSE IF scraped.len # 0
                      THEN [task EXCEPT !.pc = "embed", !.content = scraped.len]
                      ELSE IF description = 0 \/ description < MinContent
                      THEN TaskDone(task, "failed")
                      ELSE [task EXCEPT !.pc = "embed", !.content = description])
    /\ UNCHANGED <<agentVars, lastHistory, lastAdd, vector_store>>

\* lines 169-171: generate_embedding returned a vector or nothing, or raised
TaskEmbed(i, embedding) ==
    /\ ingest.pc = "running"
    /\ i \in 1..Len(ingest.tasks)
    /\ ingest.tasks[i].pc = "embed"
    /\ LET task == [ingest.tasks[i] EXCEPT !.ops = Append(@, "embed")]
       IN  SetTask(i, IF embedding = "vector" THEN [task EXCEPT !.pc = "upsert"]
                      ELSE TaskDone(task, "failed"))
    /\ UNCHANGED <<agentVars, lastHistory, lastAdd, vector_store>>

\* lines 173-185: upsert_document returned True or False, or raised
TaskUpsert(i, success) ==
    /\ ingest.pc = "running"
    /\ i \in 1..Len(ingest.tasks)
    /\ ingest.tasks[i].pc = "upsert"
    /\ LET task == [ingest.tasks[i] EXCEPT !.ops = Append(@, "upsert")]
       IN  IF success = "True"
           THEN /\ vector_store' = upsert_document(vector_store, task.doc_id)
                /\ SetTask(i, TaskDone(task, "embedded"))
           ELSE /\ UNCHANGED vector_store
                /\ SetTask(i, TaskDone(task, "failed"))
    /\ UNCHANGED <<agentVars, lastHistory, lastAdd>>

\* the tallies with the embedded branch leaving `scraped` alone
Tally_embedded_only(results, status) ==
    CASE status = "embedded" -> [results EXCEPT !.embedded = @ + 1]
      [] status = "skipped" -> [results EXCEPT !.skipped = @ + 1]
      [] status = "failed" -> [results EXCEPT !.failed = @ + 1]
      [] OTHER -> results

\* lines 194-201: one finished task is tallied
Tally(results, status) ==
    CASE status = "embedded" -> [results EXCEPT !.embedded = @ + 1, !.scraped = @ + 1]
      [] status = "skipped" -> [results EXCEPT !.skipped = @ + 1]
      [] status = "failed" -> [results EXCEPT !.failed = @ + 1]
      [] OTHER -> results

\* lines 193-201: as_completed hands over a finished task
Collect(i) ==
    /\ ingest.pc = "running"
    /\ i \in 1..Len(ingest.tasks)
    /\ ingest.tasks[i].pc = "done"
    /\ i \notin ingest.collected
    /\ ingest' = [ingest EXCEPT !.collected = @ \cup {i},
                                !.results = Tally(@, ingest.tasks[i].status)]
    /\ UNCHANGED <<agentVars, lastHistory, lastAdd, vector_store>>

\* the save made per embedded document inside the loop, not after the pool
\* has shut down
SaveAndReturn_per_item ==
    /\ ingest.pc = "running"
    /\ ingest.results.embedded > ingest.saves
    /\ vector_store' = save(vector_store)
    /\ ingest' = [ingest EXCEPT !.saves = @ + 1]
    /\ UNCHANGED <<agentVars, lastHistory, lastAdd>>

\* lines 193 and 203-206: every future has been handed over and the pool is
\* shut down; the save when something was embedded, and the return
SaveAndReturn ==
    /\ ingest.pc = "running"
    /\ ingest.collected = 1..Len(ingest.tasks)
    /\ IF ingest.results.embedded > 0
       THEN /\ vector_store' = save(vector_store)
            /\ ingest' = [ingest EXCEPT !.pc = "returned", !.saves = @ + 1,
                                        !.returned = ingest.results]
       ELSE /\ UNCHANGED vector_store
            /\ ingest' = [ingest EXCEPT !.pc = "returned", !.returned = ingest.results]
    /\ UNCHANGED <<agentVars, lastHistory, lastAdd>>

\* the articles of a request: url, and the characters of the description
Articles ==
    {[article_url |-> "u1", description |-> 80],
     [article_url |-> "u2", description |-> 0]}

Batches == UNION {[1..n -> Articles] : n \in 0..MaxArticles}

IngestTickers == {"AAPL"}

ScrapeOutcomes ==
    {[raised |-> TRUE, len |-> 0]} \cup {[raised |-> FALSE, len |-> n] : n \in {0, 80}}

EmbedOutcomes == {"raise", "none", "vector"}

UpsertOutcomes == {"raise", "False", "True"}

NextIngest ==
    \/ \E tk \in IngestTickers, b \in Batches : StartIngest(tk, b)
    \/ \E i \in 1..MaxArticles : TaskExists(i)
    \/ \E i \in 1..MaxArticles, o \in ScrapeOutcomes : TaskScrape(i, o)
    \/ \E i \in 1..MaxArticles, o \in EmbedOutcomes : TaskEmbed(i, o)
    \/ \E i \in 1..MaxArticles, o \in UpsertOutcomes : TaskUpsert(i, o)
    \/ \E i \in 1..MaxArticles : Collect(i)
    \/ SaveAndReturn

SpecIngest == Init /\ [][NextIngest]_vars

---------------------------------------------------------------------------
(* Properties of the ingestion pipeline *)

\* the tasks of the current call that process_article has ended with `status`
Ended(status) ==
    {i \in 1..Len(ingest.tasks) :
        ingest.tasks[i].pc = "done" /\ ingest.tasks[i].status = status}

\* the tasks of the current call for a (ticker, url) pair that the previous
\* call embedded
Again ==
    IF ingest.prev = None \/ ingest.prev.ticker # ingest.ticker THEN {}
    ELSE {j \in 1..Len(ingest.tasks) :
            \E i \in 1..Len(ingest.prev.status) :
                /\ ingest.prev.status[i] = "embedded"
                /\ ingest.prev.articles[i].article_url = ingest.articles[j].article_url}

\* C17: when a call embedded a (ticker, url) pair and the next call is given
\* the pair again, the first call counted it as embedded, the task of the
\* second call makes the existence check and nothing else (no scrape, embed
\* or upsert), ends as skipped and is counted as skipped, and the knowledge
\* base holds exactly one document under the pair's identifier.
C17_SecondIsSkipped ==
    \A j \in Again :
        LET task == ingest.tasks[j]
            doc_id == DocId(ingest.ticker, ingest.articles[j].article_url)
        IN  /\ ingest.prev.returned.embedded >= 1
            /\ task.pc \in {"queued", "done"}
            /\ task.pc = "done" => task.status = "skipped" /\ task.ops = <<"exists">>
            /\ ingest.pc = "returned" => ingest.returned.skipped >= 1
            /\ doc_id \in DOMAIN vector_store.documents
            /\ vector_store.documents[doc_id] = 1

\* the second call has returned, having skipped an article the first embedded
C17_Witness ==
    /\ ingest.n = 2
    /\ ingest.pc = "returned"
    /\ Again # {}
    /\ \A j \in Again : ingest.tasks[j].status = "skipped"
    /\ ingest.returned.skipped >= 1
    /\ ingest.returned.embedded = 0

\* C18: while a batch is tallied, scraped + failed + skipped is the number
\* of tasks handed over, embedded <= scraped, and each tally is the number
\* of handed-over tasks that ended in that outcome; the counts returned for
\* a batch of N <= 20 articles satisfy scraped + failed + skipped = N, and
\* are the numbers of articles per outcome, whatever the completion order.
C18_CountsAddUp ==
    LET r == ingest.results
        of(status) == Cardinality(Ended(status) \cap ingest.collected)
    IN  /\ r.scraped + r.failed + r.skipped = Cardinality(ingest.collected)
        /\ r.embedded <= r.scraped
        /\ r.embedded = of("embedded")
        /\ r.scraped = of("embedded")
        /\ r.failed = of("failed")
        /\ r.skipped = of("skipped")
        /\ ingest.pc = "returned" =>
              /\ ingest.returned = r
              /\ Len(ingest.articles) <= 20 =>
                    r.scraped + r.failed + r.skipped = Len(ingest.articles)
              /\ r.scraped = Cardinality(Ended("embedded"))
              /\ r.failed = Cardinality(Ended("failed"))
              /\ r.skipped = Cardinality(Ended("skipped"))
              /\ \A i \in 1..Len(ingest.tasks) :
                    ingest.tasks[i].status \in {"embedded", "failed", "skipped"}

\* a batch of two articles has returned with the first article embedded and
\* the second failed
C18_Witness ==
    /\ ingest.pc = "returned"
    /\ Len(ingest.articles) = 2
    /\ ingest.returned = [scraped |-> 1, embedded |-> 1, failed |-> 1, skipped |-> 0]
    /\ ingest.tasks[1].status = "embedded"
    /\ ingest.tasks[2].status = "failed"

\* a batch that names one url twice has returned with one article embedded
\* and the other skipped
C18_WitnessSkipped ==
    /\ ingest.pc = "returned"
    /\ Len(ingest.articles) = 2
    /\ ingest.returned = [scraped |-> 1, embedded |-> 1, failed |-> 0, skipped |-> 1]

\* C19: a call saves the knowledge base at most once, and only when every
\* task of the batch has ended and been handed over (no worker is checking
\* existence or upserting); a call that has returned has saved exactly when
\* at least one article of the batch was embedded.
C19_SaveOnceAfterJoin ==
    /\ ingest.saves <= 1
    /\ ingest.saves = 1 =>
          /\ \A i \in 1..Len(ingest.tasks) : ingest.tasks[i].pc = "done"
          /\ ingest.collected = 1..Len(ingest.tasks)
          /\ Ended("embedded") # {}
    /\ ingest.pc = "returned" => (ingest.saves = 1 <=> Ended("embedded") # {})
    /\ vector_store.saves <= ingest.n

\* a call has returned after its single save, with an article embedded and
\* another failed
C19_Witness ==
    /\ ingest.pc = "returned"
    /\ ingest.saves = 1
    /\ vector_store.saves = 1
    /\ Ended("embedded") # {}
    /\ Ended("failed") # {}

\* a call in which nothing was embedded has returned without a save
C19_WitnessNoSave ==
    /\ ingest.pc = "returned"
    /\ Len(ingest.tasks) >= 1
    /\ Ended("embedded") = {}
    /\ ingest.saves = 0

---------------------------------------------------------------------------
(* Requests on several threads, each with its own snapshot and ticker *)

SharedTickers == {"aapl", "msft"}

SharedSnapshots == {EmptyContext, FullContext}

NextShared ==
    \/ DayPasses
    \/ \E t \in Turns : \E tk \in SharedTickers, m \in Messages, fc \in SharedSnapshots :
          StartTurn(t, tk, m, fc, "c1")
    \/ \E t \in Turns : TurnStep(t, ConcResponses)

SpecShared == Init /\ [][NextShared]_vars

\* the Layer-1 lookup of a call in the snapshot and context ticker that came
\* with the request in slot t
OwnLookup(t, tool_name, ticker) ==
    IF turn[t].ticker = "" \/ Upper(ticker) # turn[t].ticker THEN None
    ELSE IF tool_name \notin Layer1Tools THEN None
    ELSE LET data == turn[t].frontend_context[SnapshotKey(tool_name)]
         IN  IF Truthy(data) THEN data ELSE None

\* C21: with two turns running concurrently, each tool call of a turn
\* resolves Layer 1 against the snapshot and context ticker supplied with its
\* own turn: when the call is about to execute, the executor's Layer-1 lookup
\* for it is the lookup in its own turn's snapshot.
C21_OwnSnapshot ==
    \A t \in Turns :
        turn[t].pc = "exec" =>
            LET call == turn[t].calls[turn[t].idx]
            IN  WellFormed(call.name, call.args) =>
                    _check_frontend_context(call.name, Upper(call.args.ticker))
                        = OwnLookup(t, call.name, call.args.ticker)

---------------------------------------------------------------------------
(* One request at a time whose tool calls can be served by every layer *)

DividendsCall == [name |-> "get_dividends", args |-> [ticker |-> "aapl"]]

FrameResponses ==
    {TextResponse(<<Fragment1>>), ToolResponse(<<QuoteCall, DividendsCall>>)}

NextFrame ==
    \/ DayPasses
    \/ Quiet /\ Begin(1, TurnSnapshots)
    \/ TurnStep(1, FrameResponses)

SpecFrame == Init /\ [][NextFrame]_vars

\* the step is the execute call of the request in slot t
ExecOf(t) == turn[t].pc = "exec" /\ turn'[t].execs = turn[t].execs + 1

\* the call went no further than Layer 1
FromLayer1(out) == out.l1 # <<>> /\ out.gets = <<>> /\ out.live = <<>>

\* the messages of session c in a store
MessagesOf(store, c) == IF c \in DOMAIN store THEN store[c].messages ELSE <<>>

\* C22: a tool call resolved from Layer 1 leaves the server TTL cache
\* unchanged; no execute call modifies the snapshot or its context ticker; and
\* the session store only ever receives a turn's user message and its final
\* text: a step changes a session's messages only by appending one of the
\* two for the request that takes the step.
C22_Frame ==
    [][\A t \in Turns :
          /\ ExecOf(t) =>
                /\ frontend_context' = frontend_context
                /\ context_ticker' = context_ticker
                /\ FromLayer1(turn'[t].out) => server_cache' = server_cache
          /\ \A c \in DOMAIN conversations' :
                LET old == MessagesOf(conversations, c)
                    new == conversations'[c].messages
                IN  (turn'[t] # turn[t] /\ new # old) =>
                        \/ new = Append(old, [role |-> "user",
                                               content |-> turn[t].message])
                        \/ /\ new = Append(old, [role |-> "assistant",
                                                  content |-> turn[t].final_text])
                           /\ turn[t].final_text # <<>>
                           /\ turn[t].final_text # FALLBACK_TEXT]_vars

\* with a quote in the server cache and a stored exchange, a dividends call
\* was resolved from the snapshot
C22_Witness ==
    /\ turn[1].out.l1 = <<"get_dividends">>
    /\ FromLayer1(turn[1].out)
    /\ "dividends" \in DOMAIN turn[1].out.result
    /\ "get_stock_quote:AAPL" \in DOMAIN server_cache
    /\ "c1" \in DOMAIN conversations
    /\ Len(conversations["c1"].messages) = 2

---------------------------------------------------------------------------
(* What a tool reports when its collaborator has nothing *)

\* the collaborator was called and answered without usable records
Absent(e) ==
    /\ e.n > 0
    /\ e.out.live # <<>>
    /\ e.out.raised = ""
    /\ CASE e.tool = "search_knowledge_base" ->
                e.answer.kind = "list" /\ e.answer.items = <<>>
          [] e.tool = "get_company_info" ->
                e.answer.kind = "dict" /\ "results" \notin DOMAIN e.answer.d
          [] e.tool \in {"get_stock_quote", "get_financials", "get_news",
                         "get_dividends", "get_stock_splits", "get_price_history"} ->
                e.answer.kind = "dict" /\ Get(e.answer.d, "results", <<>>) = <<>>
          [] OTHER -> FALSE

\* the tools that answer an empty record list with a note for the model
NoteTools == {"get_dividends", "get_stock_splits", "search_knowledge_base"}

\* C23 as stated: for every tool, when the collaborator returns no usable
\* records the result carries an error field, so the turn emits
\* tool_call{status=error} for the call.
C23_AbsenceIsError ==
    Absent(lastExec) =>
        /\ "error" \in DOMAIN lastExec.out.result
        /\ ResultEvent(lastExec.tool, lastExec.out.result).status = "error"

\* C23 amended: when the collaborator returns no usable records, the quote,
\* company-info, financials, news and price-history tools return a result
\* with an error field and the turn emits tool_call{status=error}; the
\* dividends, splits and knowledge-base tools return a result with a message
\* field and no error field, and the turn emits tool_call{status=complete}.
C23_AbsenceReported ==
    Absent(lastExec) =>
        IF lastExec.tool \in NoteTools
        THEN /\ "message" \in DOMAIN lastExec.out.result
             /\ "error" \notin DOMAIN lastExec.out.result
             /\ ResultEvent(lastExec.tool, lastExec.out.result).status = "complete"
        ELSE /\ "error" \in DOMAIN lastExec.out.result
             /\ ResultEvent(lastExec.tool, lastExec.out.result).status = "error"

\* the provider had no dividends for the ticker and the call reported a note
C23_Witness ==
    /\ Absent(lastExec)
    /\ lastExec.tool = "get_dividends"
    /\ lastExec.answer = Dict([results |-> <<>>])
    /\ "message" \in DOMAIN lastExec.out.result

---------------------------------------------------------------------------
(* The two tools that skip layers *)

\* C24: a knowledge-base search always issues one live retriever query and
\* neither reads nor writes Layer 1 or Layer 2, whatever the snapshot and the
\* cache contain; a forecast call never reads Layer 1, even when the
\* snapshot's ticker matches: it reads its Layer-2 entry, returns it when it
\* is fresh, and calls the forecast service otherwise.
C24_LayersSkipped ==
    [][(ExecStep /\ WellFormed(lastExec'.tool, lastExec'.args)) =>
          LET tool == lastExec'.tool
              args == lastExec'.args
              out == lastExec'.out
          IN  /\ tool = "search_knowledge_base" =>
                    /\ Len(out.live) = 1
                    /\ out.live[1].fn = "context_retriever.retrieve_context"
                    /\ out.l1 = <<>>
                    /\ out.gets = <<>>
                    /\ out.sets = <<>>
                    /\ server_cache' = server_cache
              /\ tool = "get_price_forecast" =>
                    /\ out.l1 = <<>>
                    /\ out.gets = <<KeyOf(tool, args)>>
                    /\ IF Layer2Fresh(tool, args)
                       THEN /\ out.live = <<>>
                            /\ out.result = server_cache[KeyOf(tool, args)].data
                       ELSE /\ Len(out.live) = 1
                            /\ out.live[1].fn = "forecast_service.get_forecast"]_vars

\* a search ran while the snapshot was bound to its ticker and the server
\* cache held an entry
C24_Witness ==
    /\ lastExec.n = 2
    /\ lastExec.tool = "search_knowledge_base"
    /\ lastExec.out.live # <<>>
    /\ "results" \in DOMAIN lastExec.out.result
    /\ context_ticker = "AAPL"
    /\ frontend_context = FullContext
    /\ server_cache # <<>>

\* a forecast call went to the forecast service while the snapshot was bound
\* to its ticker
C24_WitnessForecast ==
    /\ lastExec.n > 0
    /\ lastExec.tool = "get_price_forecast"
    /\ Upper(lastExec.args.ticker) = "AAPL"
    /\ lastExec.out.live # <<>>
    /\ context_ticker = "AAPL"
    /\ frontend_context = FullContext

---------------------------------------------------------------------------
(* Price-history calls over several tickers, date ranges and granularities *)

PriceArgs ==
    {[ticker |-> tk, from_date |-> f, to_date |-> "2024-02-01"] :
        tk \in {"aapl", "AAPL", "MSFT"}, f \in {"2024-01-01", "2024-01-15"}}
    \cup {[ticker |-> "aapl", from_date |-> "2024-01-01", to_date |-> "2024-03-01"]}
    \cup {[ticker |-> "aapl", from_date |-> "2024-01-01", to_date |-> "2024-02-01",
           timespan |-> ts] : ts \in {"", "day", "week"}}

PriceCalls ==
    {[tool |-> "get_price_history", args |-> a] : a \in PriceArgs}
    \cup {[tool |-> t, args |-> [ticker |-> "aapl"]] :
            t \in {"get_stock_quote", "get_price_forecast"}}

NextPrices ==
    \/ \E d \in TickSteps : Tick(d, MaxTime)
    \/ \E c \in PriceCalls : \E live \in LiveOutcomes(c.tool) :
          Execute(c.tool, c.args, live)

SpecPrices == Init /\ [][NextPrices]_vars

\* the granularity a price-history call asks for
Granularity(args) ==
    IF "timespan" \in DOMAIN args /\ args.timespan # "" THEN args.timespan ELSE "day"

\* the call returned data without reaching a collaborator: Layer 2 served it
FromLayer2(out) == out.gets # <<>> /\ out.live = <<>> /\ out.raised = ""

\* C25: a price-history call is served from Layer 2 only by an entry stored
\* for the same ticker, start date, end date and granularity (an omitted
\* granularity counting as day), so two calls that differ in one of them
\* never share an entry; and no other tool's call is served a price-history
\* entry, nor a price-history call another tool's entry.
C25_OwnEntry ==
    [][(ExecStep /\ WellFormed(lastExec'.tool, lastExec'.args)
          /\ FromLayer2(lastExec'.out)) =>
          LET args == lastExec'.args
              result == lastExec'.out.result
          IN  IF lastExec'.tool = "get_price_history"
              THEN /\ "bars" \in DOMAIN result
                   /\ result.ticker = Upper(args.ticker)
                   /\ result.from = args.from_date
                   /\ result.to = args.to_date
                   /\ result.timespan = Granularity(args)
              ELSE "bars" \notin DOMAIN result]_vars

\* the second of two price-history calls was served the one entry the first
\* had stored
C25_Witness ==
    /\ lastExec.n = 2
    /\ lastExec.tool = "get_price_history"
    /\ FromLayer2(lastExec.out)
    /\ "bars" \in DOMAIN lastExec.out.result
    /\ Cardinality(DOMAIN server_cache) = 1

\* a call differing only in the granularity went to the provider although
\* the cache held a fresh entry for the same ticker and date range
C25_WitnessMiss ==
    /\ lastExec.n = 2
    /\ lastExec.tool = "get_price_history"
    /\ lastExec.out.live # <<>>
    /\ Granularity(lastExec.args) = "week"
    /\ "get_price_history:AAPL:2024-01-01:2024-02-01:day" \in DOMAIN server_cache
    /\ now = 0

---------------------------------------------------------------------------
(* ConversationManager.add_message called directly, one call at a time *)

\* _cleanup_old_conversations deleting a session that is exactly ttl_hours old
_cleanup_old_conversations_inclusive(store) ==
    LET cutoff == now - ttl_hours * 3600
        to_delete == {c \in DOMAIN store : store[c].created_at <= cutoff}
    IN  [c \in DOMAIN store \ to_delete |-> store[c]]

\* _cleanup_old_conversations applied to a store value
_cleanup_old_conversations(store) ==
    LET cutoff == now - ttl_hours * 3600
        to_delete == {c \in DOMAIN store : store[c].created_at < cutoff}
    IN  [c \in DOMAIN store \ to_delete |-> store[c]]

\* add_message applied to a store value: the session is created when
\* missing, the message appended, the store swept
add_message(store, conversation_id, role, content) ==
    LET created ==
            IF conversation_id \notin DOMAIN store
            THEN [c \in DOMAIN store \cup {conversation_id} |->
                    IF c = conversation_id
                    THEN [messages |-> <<>>, created_at |-> now]
                    ELSE store[c]]
            ELSE store
        appended ==
            [created EXCEPT ![conversation_id].messages =
                Append(@, [role |-> role, content |-> content])]
    IN  _cleanup_old_conversations(appended)

AddMessage(conversation_id, role, content) ==
    /\ Len(MessagesOf(conversations, conversation_id)) < MaxStored
    /\ conversations' = add_message(conversations, conversation_id, role, content)
    /\ lastAdd' = [n |-> 1, op |-> "add", conversation_id |-> conversation_id,
                   at |-> now,
                   message |-> [role |-> role, content |-> content],
                   before |-> conversations, raised |-> FALSE,
                   prev |-> <<lastAdd.op, lastAdd.conversation_id>>]
    /\ UNCHANGED <<server_cache, frontend_context, context_ticker, now, lastExec,
                   lastGet, turn, events, started>>
    /\ UNCHANGED <<lastHistory, ingestVars>>

\* exactly the retention window, and a second more
StoreTickSteps == {ttl_hours * 3600, ttl_hours * 3600 + 1}

Roles == {"user", "assistant"}

NextStore ==
    \/ \E d \in StoreTickSteps : Tick(d, TurnTimeLimit)
    \/ \E c \in ConvIds, r \in Roles, m \in Messages : AddMessage(c, r, m)

SpecStore == Init /\ [][NextStore]_vars

\* s is a prefix of r
IsPrefix(s, r) == Len(s) <= Len(r) /\ s = SubSeq(r, 1, Len(s))

\* C26: when an add_message call has returned, the store holds no session
\* created more than 24 hours before the time of the call, and every session
\* that was not older than that is still there with its creation time and
\* its messages (the written session one message longer).
C26_SweepOnWrite ==
    lastAdd.n > 0 =>
        LET cutoff == lastAdd.at - 24 * 3600
            before == lastAdd.before
        IN  /\ \A c \in DOMAIN conversations :
                  conversations[c].created_at >= cutoff
            /\ \A c \in DOMAIN before :
                  before[c].created_at >= cutoff =>
                      /\ c \in DOMAIN conversations
                      /\ conversations[c].created_at = before[c].created_at
                      /\ conversations[c].messages =
                            IF c = lastAdd.conversation_id
                            THEN Append(before[c].messages, lastAdd.message)
                            ELSE before[c].messages

\* a write to one session, a second after the retention window of another,
\* swept that other session
C26_Witness ==
    /\ lastAdd.n > 0
    /\ lastAdd.at = ttl_hours * 3600 + 1
    /\ lastAdd.conversation_id = "c2"
    /\ "c1" \in DOMAIN lastAdd.before
    /\ lastAdd.before["c1"].created_at = 0
    /\ "c1" \notin DOMAIN conversations
    /\ "c2" \in DOMAIN conversations

\* a session exactly 24 hours old survived a write to another session
C26_WitnessBoundary ==
    /\ lastAdd.n > 0
    /\ lastAdd.at = ttl_hours * 3600
    /\ lastAdd.conversation_id = "c2"
    /\ "c1" \in DOMAIN lastAdd.before
    /\ "c1" \in DOMAIN conversations
    /\ conversations["c1"].created_at = 0

---------------------------------------------------------------------------
(* The worker pool under load: a batch longer than the pool, and a batch    *)
(* longer than the limit of one call                                        *)

Known == [article_url |-> "u2", description |-> 0]

Fresh == [article_url |-> "u1", description |-> 80]

\* more new articles than the pool has threads
PoolBatch == [i \in 1..(max_workers + 1) |-> Fresh]

\* articles that are in the knowledge base, followed, beyond the limit of
\* one call, by new ones
LongBatch == [i \in 1..MaxBatch |-> IF i <= BatchLimit THEN Known ELSE Fresh]

\* the knowledge base holds the known article
InitPool ==
    /\ server_cache = <<>>
    /\ frontend_context = EmptyContext
    /\ context_ticker = NoneStr
    /\ now = 0
    /\ lastExec = NoExec
    /\ lastGet = NoGet
    /\ conversations = <<>>
    /\ turn = [t \in Turns |-> IdleTurn]
    /\ events = [t \in Turns |-> <<>>]
    /\ started = 0
    /\ lastHistory = NoHistory
    /\ lastAdd = NoAdd
    /\ vector_store = upsert_document(NoDocuments, DocId("AAPL", Known.article_url))
    /\ ingest = NoIngest

\* the main thread, waiting in as_completed, has tallied every finished task
Tallied ==
    \A i \in 1..Len(ingest.tasks) :
        ingest.tasks[i].pc = "done" => i \in ingest.collected

\* the scraper finds the text, the embedding is made, the store refuses the
\* document; the main thread tallies a finished task before a pool thread
\* takes its next step
NextPool ==
    \/ \E b \in {PoolBatch, LongBatch} : StartIngest("AAPL", b)
    \/ \E i \in 1..MaxBatch : Tallied /\ TaskExists(i)
    \/ \E i \in 1..MaxBatch : Tallied /\ TaskScrape(i, [raised |-> FALSE, len |-> 80])
    \/ \E i \in 1..MaxBatch : Tallied /\ TaskEmbed(i, "vector")
    \/ \E i \in 1..MaxBatch : Tallied /\ TaskUpsert(i, "False")
    \/ \E i \in 1..MaxBatch : Collect(i)
    \/ SaveAndReturn

SpecPool == InitPool /\ [][NextPool]_vars

\* C27: a call processes only the first 20 articles of its input: there is
\* a task, and so a check, a scrape, an embedding or an upsert, only for
\* these, and the counts returned add up to their number; and at no moment
\* do more than 5 articles hold a pool thread.
C27_BatchAndPoolLimits ==
    /\ Cardinality(Running) <= 5
    /\ ingest.pc # "idle" =>
          Len(ingest.tasks) = Min(Len(ingest.articles), 20)
    /\ ingest.pc = "returned" =>
          ingest.returned.scraped + ingest.returned.failed + ingest.returned.skipped
              = Min(Len(ingest.articles), 20)

\* a call with 21 articles or more returned: 20 were counted, and the new
\* article beyond the limit was never checked
C27_Witness ==
    /\ ingest.pc = "returned"
    /\ Len(ingest.articles) > 20
    /\ ingest.articles[21] = Fresh
    /\ ingest.returned.skipped = 20
    /\ \A i \in 1..Len(ingest.tasks) : ingest.tasks[i].ops = <<"exists">>

\* five articles hold a thread and the sixth waits for one
C27_WitnessPoolFull ==
    /\ ingest.pc = "running"
    /\ Cardinality(Running) = 5
    /\ Len(ingest.tasks) = 6
    /\ ingest.tasks[6].pc = "queued"

---------------------------------------------------------------------------
(* The snapshot's ticker *)

\* C28: Layer 1 never serves data for a ticker other than the snapshot's
\* bound ticker: a call of a Layer-1 tool whose ticker, upper-cased, differs
\* from the context ticker, or that is made while there is no context ticker,
\* ignores the snapshot: it reads its Layer-2 entry, returns it when it is
\* fresh and calls the collaborator otherwise; a call whose ticker differs
\* from the context ticker only in letter case is served from the snapshot
\* when the snapshot has data for the tool.
C28_BoundTicker ==
    [][(/\ ExecStep
        /\ lastExec'.tool \in Layer1Tools
        /\ WellFormed(lastExec'.tool, lastExec'.args)) =>
          LET tool == lastExec'.tool
              args == lastExec'.args
              out == lastExec'.out
              key == KeyOf(tool, args)
          IN  IF Upper(args.ticker) # context_ticker
              THEN /\ out.gets = <<key>>
                   /\ IF Layer2Fresh(tool, args)
                      THEN /\ out.live = <<>>
                           /\ out.result = server_cache[key].data
                      ELSE Len(out.live) = 1
              ELSE Layer1Serves(tool, args) => FromLayer1(out)]_vars

\* a quote for MSFT went to the provider while the snapshot, bound to AAPL,
\* held a quote
C28_Witness ==
    /\ lastExec.n > 0
    /\ lastExec.tool = "get_stock_quote"
    /\ "ticker" \in DOMAIN lastExec.args
    /\ lastExec.args.ticker = "MSFT"
    /\ lastExec.out.live # <<>>
    /\ context_ticker = "AAPL"
    /\ frontend_context = FullContext

\* a quote for aapl was served from the snapshot bound to AAPL
C28_WitnessCase ==
    /\ lastExec.n > 0
    /\ lastExec.tool = "get_stock_quote"
    /\ "ticker" \in DOMAIN lastExec.args
    /\ lastExec.args.ticker = "aapl"
    /\ FromLayer1(lastExec.out)
    /\ lastExec.out.raised = ""
    /\ context_ticker = "AAPL"

\* a full snapshot without a context ticker was ignored
C28_WitnessNoTicker ==
    /\ lastExec.n > 0
    /\ lastExec.tool = "get_financials"
    /\ lastExec.out.live # <<>>
    /\ context_ticker = NoneStr
    /\ frontend_context = FullContext

---------------------------------------------------------------------------
(* One article at a time, with descriptions around the length limit *)

\* no description, one of 49 characters, one of 50
ArticleKinds == {[article_url |-> "u1", description |-> d] : d \in {0, 49, 50}}

\* the scraper raises, finds nothing, or returns 30 characters
ArticleScrapes ==
    {[raised |-> TRUE, len |-> 0], [raised |-> FALSE, len |-> 0],
     [raised |-> FALSE, len |-> 30]}

NextArticle ==
    \/ \E a \in ArticleKinds : StartIngest("AAPL", <<a>>)
    \/ TaskExists(1)
    \/ \E o \in ArticleScrapes : TaskScrape(1, o)
    \/ \E o \in EmbedOutcomes : TaskEmbed(1, o)
    \/ \E o \in UpsertOutcomes : TaskUpsert(1, o)
    \/ Collect(1)
    \/ SaveAndReturn

SpecArticle == Init /\ [][NextArticle]_vars

\* process_article has returned `status` for the task in the next state
Returns(status) ==
    /\ ingest'.tasks[1].pc = "done"
    /\ ingest'.tasks[1].status = status

\* C29: for an article that is not in the knowledge base the outcome follows
\* the fixed order.  Scrape: an exception gives failed; nothing scraped and a
\* description shorter than 50 characters gives failed with no embedding
\* attempt; otherwise the scraped text, or else the description, goes to the
\* embedding.  Embedding: anything but a vector gives failed with no upsert.
\* Upsert: success puts the document in the knowledge base and gives
\* embedded, anything else gives failed.  An embedded article adds one to
\* scraped and to embedded, a failed one to failed only.
C29_DecisionOrder ==
    [][/\ \A o \in ArticleScrapes :
             TaskScrape(1, o) =>
                 LET description == ingest.articles[1].description
                 IN  /\ ingest.tasks[1].ops = <<"exists">>
                     /\ vector_store' = vector_store
                     /\ IF o.raised \/ (o.len = 0 /\ description < 50)
                        THEN Returns("failed")
                        ELSE /\ ingest'.tasks[1].pc = "embed"
                             /\ ingest'.tasks[1].content =
                                   IF o.len # 0 THEN o.len ELSE description
       /\ \A o \in EmbedOutcomes :
             TaskEmbed(1, o) =>
                 /\ ingest.tasks[1].ops = <<"exists", "scrape">>
                 /\ vector_store' = vector_store
                 /\ IF o = "vector" THEN ingest'.tasks[1].pc = "upsert"
                    ELSE Returns("failed")
       /\ \A o \in UpsertOutcomes :
             TaskUpsert(1, o) =>
                 /\ ingest.tasks[1].ops = <<"exists", "scrape", "embed">>
                 /\ IF o = "True"
                    THEN /\ Returns("embedded")
                         /\ ingest.tasks[1].doc_id \in DOMAIN vector_store'.documents
                    ELSE /\ Returns("failed")
                         /\ vector_store' = vector_store
       /\ Collect(1) =>
             ingest'.results =
                 CASE ingest.tasks[1].status = "embedded" ->
                        [ingest.results EXCEPT !.scraped = @ + 1, !.embedded = @ + 1]
                   [] ingest.tasks[1].status = "failed" ->
                        [ingest.results EXCEPT !.failed = @ + 1]
                   [] OTHER ->
                        [ingest.results EXCEPT !.skipped = @ + 1]]_vars

\* nothing was scraped, the description of exactly 50 characters was
\* embedded and upserted, and the call counted the article as scraped and
\* embedded
C29_Witness ==
    /\ ingest.pc = "returned"
    /\ ingest.tasks[1].status = "embedded"
    /\ ingest.tasks[1].content = 50
    /\ ingest.tasks[1].ops = <<"exists", "scrape", "embed", "upsert">>
    /\ ingest.returned = [scraped |-> 1, embedded |-> 1, failed |-> 0, skipped |-> 0]

\* an article with a description of 49 characters failed without an
\* embedding attempt
C29_WitnessShort ==
    /\ ingest.pc = "returned"
    /\ ingest.articles[1].description = 49
    /\ ingest.tasks[1].status = "failed"
    /\ ingest.tasks[1].ops = <<"exists", "scrape">>
    /\ ingest.returned.failed = 1

\* a scraped text of 30 characters was embedded
C29_WitnessScraped ==
    /\ ingest.pc = "returned"
    /\ ingest.tasks[1].status = "embedded"
    /\ ingest.tasks[1].content = 30

---------------------------------------------------------------------------
(* The news limit *)

\* the number of articles a news call asks for: limit, 10 when it is omitted
\* (or zero), 20 at most
Asked(args) ==
    LET limit == IF "limit" \in DOMAIN args /\ args.limit # 0 THEN args.limit ELSE 10
    IN  Min(limit, 20)

\* C30: a news call returns at most min(limit, 20) articles (10 when limit
\* is omitted), whichever layer serves it and whatever limit an earlier call
\* for the same ticker used.
C30_NewsLimit ==
    (/\ lastExec.n > 0
     /\ lastExec.tool = "get_news"
     /\ WellFormed(lastExec.tool, lastExec.args)
     /\ "articles" \in DOMAIN lastExec.out.result) =>
        Len(lastExec.out.result.articles) <= Asked(lastExec.args)

---------------------------------------------------------------------------
(* ConversationManager.clear_conversation called directly, between writes *)

\* clear_conversation deleting the key without testing for it
clear_conversation_unguarded(store, conversation_id) ==
    IF conversation_id \in DOMAIN store
    THEN [conversations |-> [c \in DOMAIN store \ {conversation_id} |-> store[c]],
          raised |-> FALSE]
    ELSE [conversations |-> store, raised |-> TRUE]

\* clear_conversation applied to a store value: the store it leaves and
\* whether it raised
clear_conversation(store, conversation_id) ==
    IF conversation_id \in DOMAIN store
    THEN [conversations |-> [c \in DOMAIN store \ {conversation_id} |-> store[c]],
          raised |-> FALSE]
    ELSE [conversations |-> store, raised |-> FALSE]

ClearConversation(conversation_id) ==
    LET out == clear_conversation(conversations, conversation_id)
    IN  /\ conversations' = out.conversations
        /\ lastAdd' = [n |-> 1, op |-> "clear", conversation_id |-> conversation_id,
                       at |-> now, message |-> NoAdd.message,
                       before |-> conversations, raised |-> out.raised,
                       prev |-> <<lastAdd.op, lastAdd.conversation_id>>]
        /\ UNCHANGED <<server_cache, frontend_context, context_ticker, now,
                       lastExec, lastGet, turn, events, started>>
        /\ UNCHANGED <<lastHistory, ingestVars>>

NextClear ==
    \/ \E d \in StoreTickSteps : Tick(d, TurnTimeLimit)
    \/ \E c \in ConvIds, r \in Roles, m \in Messages : AddMessage(c, r, m)
    \/ \E c \in HistoryIds : ClearConversation(c)

SpecClear == Init /\ [][NextClear]_vars

\* C31: when clear_conversation(id) has returned it has not raised, the
\* store holds every other session as it was and no session for id, and
\* get_history(id) is empty; an add_message(id, ...) that directly follows
\* it leaves a session for id holding that one message, created at the time
\* of the write.
C31_Clear ==
    /\ lastAdd.op = "clear" =>
          LET id == lastAdd.conversation_id
              before == lastAdd.before
          IN  /\ ~lastAdd.raised
              /\ DOMAIN conversations = DOMAIN before \ {id}
              /\ \A c \in DOMAIN conversations : conversations[c] = before[c]
              /\ \A last_n \in 1..MaxLastN : get_history(id, last_n) = <<>>
    /\ (lastAdd.op = "add" /\ lastAdd.prev = <<"clear", lastAdd.conversation_id>>) =>
          LET id == lastAdd.conversation_id
          IN  /\ id \in DOMAIN conversations
              /\ conversations[id] =
                    [messages |-> <<lastAdd.message>>, created_at |-> lastAdd.at]

\* a session with messages was cleared while another session stayed
C31_Witness ==
    /\ lastAdd.op = "clear"
    /\ lastAdd.conversation_id = "c1"
    /\ "c1" \in DOMAIN lastAdd.before
    /\ Len(lastAdd.before["c1"].messages) = MaxStored
    /\ "c2" \in DOMAIN conversations
    /\ "c1" \notin DOMAIN conversations

\* an id the store never held was cleared while the store held sessions
C31_WitnessUnknown ==
    /\ lastAdd.op = "clear"
    /\ lastAdd.conversation_id = "c3"
    /\ DOMAIN conversations = ConvIds
    /\ conversations = lastAdd.before

\* a session created at time 0 was cleared later and written again
C31_WitnessFresh ==
    /\ lastAdd.op = "add"
    /\ lastAdd.prev = <<"clear", "c1">>
    /\ lastAdd.conversation_id = "c1"
    /\ lastAdd.at > 0
    /\ conversations["c1"].created_at = lastAdd.at
    /\ Len(conversations["c1"].messages) = 1

---------------------------------------------------------------------------
(* The session writes of a turn and its done event *)

\* the turn in slot t has assigned nothing to the session store as long as
\* it has not emitted done
WritesFollowDone(t) ==
    (turn[t].pc # "idle" /\ EventsOf(t, "done") = {}) =>
        /\ turn[t].writes = 0
        /\ turn[t].appended = 0

\* no turn writes before its done event
NoWriteBeforeDone == \A t \in Turns : WritesFollowDone(t)

\* the session of the turn in slot t holds the turn's user message directly
\* followed by its assistant message
BothStored(t) ==
    /\ turn[t].cid \in DOMAIN conversations
    /\ LET m == conversations[turn[t].cid].messages
       IN  \E i \in 1..(Len(m) - 1) :
              /\ m[i] = [role |-> "user", content |-> turn[t].message]
              /\ m[i + 1] = [role |-> "assistant", content |-> turn[t].final_text]

\* C32: a turn writes nothing to the session store before it has emitted
\* done, and when the event sequence of a turn that answered with a final
\* text has ended, the store holds the turn's user message and its
\* assistant message.
C32_WritesAfterDone ==
    /\ NoWriteBeforeDone
    /\ \A t \in Turns :
          (turn[t].pc = "finished" /\ turn[t].raised = ""
              /\ turn[t].role = "assistant") => BothStored(t)

---------------------------------------------------------------------------
(* Error results and Layer 2 *)

\* C33: a tool call whose collaborator call produced a result with an error
\* field has stored nothing in the server cache, and no entry of the server
\* cache holds a result with an error field.
C33_ErrorsNotCached ==
    /\ (/\ lastExec.n > 0
        /\ lastExec.out.live # <<>>
        /\ "error" \in DOMAIN lastExec.out.result) => lastExec.out.sets = <<>>
    /\ \A key \in DOMAIN server_cache :
          "error" \notin DOMAIN server_cache[key].data

---------------------------------------------------------------------------
(* Tasks of one batch for the same identifier *)

\* C34: among the tasks of an ingest call that were given the same
\* identifier, at most one has returned `embedded`.
C34_OneEmbeddedPerId ==
    \A i \in 1..Len(ingest.tasks), j \in 1..Len(ingest.tasks) :
        (/\ i # j
         /\ ingest.tasks[i].doc_id = ingest.tasks[j].doc_id
         /\ ingest.tasks[i].status = "embedded") =>
            ingest.tasks[j].status # "embedded"

---------------------------------------------------------------------------
(* Sweeps of concurrent writers *)

\* a session of an earlier turn was stored at time 0 and a little more than
\* the retention window has passed without a write
InitSweep ==
    /\ server_cache = <<>>
    /\ frontend_context = EmptyContext
    /\ context_ticker = NoneStr
    /\ now = ttl_hours * 3600 + 1
    /\ lastExec = NoExec
    /\ lastGet = NoGet
    /\ conversations = [c \in {"c1"} |-> Session(2)]
    /\ turn = [t \in Turns |-> IdleTurn]
    /\ events = [t \in Turns |-> <<>>]
    /\ started = 0
    /\ lastHistory = NoHistory
    /\ vector_store = NoDocuments
    /\ ingest = NoIngest
    /\ lastAdd = NoAdd

\* requests on several threads, the model answering each with plain text
NextSweep ==
    \/ \E t \in Turns : \E m \in Messages, cid \in ConvIds :
          StartTurn(t, "aapl", m, EmptyContext, cid)
    \/ \E t \in Turns : Generate(t, TextResponse(<<Fragment1>>))
    \/ \E t \in Turns : YieldText(t)
    \/ \E t \in Turns : YieldDone(t)
    \/ \E t \in Turns : AddCheck(t)
    \/ \E t \in Turns : AddCreate(t)
    \/ \E t \in Turns : AddAppend(t)
    \/ \E t \in Turns : CleanupBegin(t)
    \/ \E t \in Turns : CleanupScan(t)
    \/ \E t \in Turns, c \in ConvIds : CleanupDelete(t, c)
    \/ \E t \in Turns : AddReturn(t)
    \/ \E t \in Turns : Return(t)

SpecSweep == InitSweep /\ [][NextSweep]_vars

\* the store the turn in slot t found held a session created before the
\* retention cutoff
FoundExpired(t) ==
    \E c \in DOMAIN turn[t].store0 :
        turn[t].store0[c].created_at < now - ttl_hours * 3600

\* the turn in slot t has emitted done and no add_message call of it has
\* raised
SweepsComplete(t) ==
    EventsOf(t, "done") # {} =>
        /\ turn[t].raised = ""
        /\ EventsOf(t, "error") = {}

\* C35: when turns write to a store that held a session older than the
\* retention cutoff, no add_message call raises: a turn that has emitted
\* done has not raised and emits no error event, whatever the other turns
\* write and sweep meanwhile.
C35_NoFaultAfterDone ==
    \A t \in Turns : (turn[t].pc # "idle" /\ FoundExpired(t)) => SweepsComplete(t)

====
